---- MODULE Spec2Model ----
(***************************************************************************)
(* Monthly group analytics synchronisation (group-analytics.js).           *)
(* main -> processMonthAnalytics -> processGroupAnalytics, the platform    *)
(* modules' sheet writers, and the destination spreadsheets they change.   *)
(***************************************************************************)
EXTENDS Integers, Sequences, FiniteSets, TLC

(* ------------------------------ bounds -------------------------------- *)
NumGroups == 2
NumMonths == 2
NumPlatforms == 2
MaxRuns == 2
MaxBatch == 2
MaxFaults == 1
MaxData == 2
MaxUnits == 3

(* ------------------------- program constants -------------------------- *)
GroupPauseMs == 300000
MonthPauseMs == 600000

\* keys of networkModules / rowsByNetwork, in declaration order
NetworkOrder == <<"instagram", "youtube", "linkedin", "facebook", "twitter">>

Networks == {NetworkOrder[i] : i \in 1..NumPlatforms}

\* networkType.charAt(0).toUpperCase() + networkType.slice(1)
Capitalize(networkType) ==
  CASE networkType = "instagram" -> "Instagram"
    [] networkType = "youtube" -> "Youtube"
    [] networkType = "linkedin" -> "Linkedin"
    [] networkType = "facebook" -> "Facebook"
    [] networkType = "twitter" -> "Twitter"
    [] OTHER -> networkType

\* every platform module exporting the sheet name of the Instagram module
SHEET_NAME_Shared(module) == "Instagram"

\* SHEET_NAME of each platform module
SHEET_NAME(module) ==
  CASE module = "instagram" -> "Instagram"
    [] module = "youtube" -> "Youtube"
    [] module = "linkedin" -> "Linkedin"
    [] module = "facebook" -> "Facebook"
    [] module = "twitter" -> "Twitter"
    [] OTHER -> "?"

SheetNames == {Capitalize(n) : n \in Networks}

\* raw network_type of the profiles the metadata endpoint returns
RawType(n) ==
  CASE n = "instagram" -> "fb_instagram_account"
    [] n = "youtube" -> "youtube_channel"
    [] n = "linkedin" -> "linkedin_company"
    [] n = "facebook" -> "fb_page"
    [] n = "twitter" -> "twitter_profile"
    [] OTHER -> n

\* String.prototype.toLowerCase on the network types that carry capitals
ToLowerCase(str) ==
  CASE str = "TikTok" -> "tiktok"
    [] str = "Twitter" -> "twitter"
    [] str = "FB_PAGE" -> "fb_page"
    [] OTHER -> str

\* a table that sends Instagram accounts to the Facebook module
networkTypeMapping_InstagramAsFacebook(raw) ==
  CASE raw = "linkedin_company" -> "linkedin"
    [] raw = "fb_instagram_account" -> "facebook"
    [] raw = "fb_page" -> "facebook"
    [] raw = "youtube_channel" -> "youtube"
    [] raw = "twitter_profile" -> "twitter"
    [] OTHER -> ToLowerCase(raw)

\* networkTypeMapping[profile.network_type] || profile.network_type.toLowerCase()
networkTypeMapping(raw) ==
  CASE raw = "linkedin_company" -> "linkedin"
    [] raw = "fb_instagram_account" -> "instagram"
    [] raw = "fb_page" -> "facebook"
    [] raw = "youtube_channel" -> "youtube"
    [] raw = "twitter_profile" -> "twitter"
    [] OTHER -> ToLowerCase(raw)

(* --------------------------- groups, profiles ------------------------- *)
Groups == 1..NumGroups
Months == 1..NumMonths
Units == Groups \X Months

\* JavaScript values of an id: the number n, the string of its decimal
\* digits, or undefined
Num(n) == [t |-> "number", v |-> n]
Str(n) == [t |-> "string", v |-> n]
Undefined == [t |-> "undefined", v |-> 0]

\* every group holds one profile per platform; customer_profile_id is numeric
ProfileId(g, i) == g * 10 + i

ProfilesOf(g) ==
  {[customer_profile_id |-> Num(ProfileId(g, i)),
    network_type |-> RawType(NetworkOrder[i])] :
     i \in 1..NumPlatforms}

\* groupUtils.groupProfilesByNetworkType, in the order of the module table
profilesByNetwork(g) ==
  [i \in 1..NumPlatforms |->
     {p \in ProfilesOf(g) : networkTypeMapping(p.network_type) = NetworkOrder[i]}]

(* ------------------------------ dates --------------------------------- *)
\* a YYYY-MM-DD string is kept as its YYYY-MM prefix (ym) and its day
DateOf(ym, day) == [ym |-> ym, day |-> day]

\* new Date(2024, 0, 1): month 1 is January of this year
BoundaryYear == 2024

\* getFullYear() and getMonth() + 1 of a date of month ym
YearOf(ym) == BoundaryYear + ((ym - 1) \div 12)
MonthOf(ym) == ((ym - 1) % 12) + 1

IsLeapYear(year) == (year % 4 = 0 /\ year % 100 # 0) \/ year % 400 = 0

\* a calendar in which February always has 28 days
DaysInMonth_NoLeapDay(ym) ==
  LET month == MonthOf(ym)
  IN IF month = 2 THEN 28
     ELSE IF month \in {4, 6, 9, 11} THEN 30 ELSE 31

\* new Date(year, month + 1, 0).getDate(): the last day of the month
DaysInMonth(ym) ==
  LET month == MonthOf(ym)
  IN IF month = 2 THEN (IF IsLeapYear(YearOf(ym)) THEN 29 ELSE 28)
     ELSE IF month \in {4, 6, 9, 11} THEN 30 ELSE 31

\* getMonthDateRange: the first and the last day of the month of the given
\* date, each formatted as YYYY-MM-DD
getMonthDateRange(m) ==
  [startDate |-> DateOf(m, 1), endDate |-> DateOf(m, DaysInMonth(m))]

\* startDate.substring(0, 7)
MonthYearKey(startDate) == startDate.ym

\* a cell of column A: the YYYY-MM prefix of its text (0 when the text does
\* not start with a month), its day, the run that wrote it, and what it is
Cell(date, by, kind) == [ym |-> date.ym, day |-> date.day, by |-> by, kind |-> kind]

\* HEADERS[0] = "Date"
HeaderCell == [ym |-> 0, day |-> 0, by |-> 0, kind |-> "header"]

\* row[0] && row[0].startsWith(monthYearKey)
StartsWithKey(cell, key) == cell.ym = key

(* ------------------------------ state --------------------------------- *)
VARIABLES
  docs,           \* Drive folder: spreadsheet of every (group, month description)
  run,            \* number of runs of the script started so far
  nowMonth,       \* month of "new Date()" during the current run
  pc,             \* position of main / processMonthAnalytics
  mi,             \* month being processed (index into monthsToProcess)
  gi,             \* group being processed (index into Object.entries(profilesByGroup))
  folderMonth,    \* FOLDER_CONFIGS[0]: month of the configured date range
  monthResults,   \* monthResults of processMonthAnalytics
  allResults,     \* allResults of main
  upc,            \* position inside processGroupAnalytics
  createdSheets,  \* createdSheets
  si,             \* loop index over networks / createdSheets
  analyticsData,  \* analyticsData.data
  rowsByNetwork,  \* rowsByNetwork
  writes,         \* updateWithTiming calls in flight
  ust,            \* state of every (group, month) unit in this run
  ops,            \* operations the current unit has issued against the outside
  order,          \* units in the order they were started in this run
  pauses,         \* sleeps performed since the last unit returned
  monthPauses,    \* sleeps performed since the last month returned
  snap,           \* month rows per sheet of the destination when the unit started
  faults,         \* failures of unit-level calls so far
  fetched,        \* non-empty answers of the analytics endpoint so far
  numGroups,      \* per month of this run: groups returned (-1: month not entered)
  results,        \* results of processGroupAnalytics (what it returns)
  summary,        \* what the end of main printed for the collected results
  exited,         \* why the process called process.exit(1) ("no": it did not)
  fin,            \* input of a function applied on its own (SpecDedup)
  fout,           \* its output
  unitCount       \* units started so far, over all runs

vars == <<docs, run, nowMonth, pc, mi, gi, folderMonth, monthResults,
          allResults, upc, createdSheets, si, analyticsData, rowsByNetwork,
          writes, ust, ops, order, pauses, monthPauses, snap, faults, fetched,
          numGroups, unitCount, results, summary, exited, fin, fout>>

runVars == <<run, nowMonth, unitCount>>
metaVars == <<numGroups, summary, exited>>
pureVars == <<fin, fout>>
loopVars == <<mi, gi, folderMonth>>
unitData == <<createdSheets, si, analyticsData, rowsByNetwork>>

EmptySheet == [created |-> FALSE, colA |-> <<>>]
EmptyDoc == [exists |-> FALSE, title |-> 0, sheets |-> [s \in SheetNames |-> EmptySheet]]
NoRows == [n \in Networks |-> <<>>]

MainInit ==
  /\ docs = [u \in Units |-> EmptyDoc]
  /\ run = 0
  /\ nowMonth = 1
  /\ pc = "idle"
  /\ mi = 1
  /\ gi = 1
  /\ folderMonth = 0
  /\ monthResults = <<>>
  /\ allResults = <<>>
  /\ upc = "none"
  /\ createdSheets = <<>>
  /\ si = 1
  /\ analyticsData = <<>>
  /\ rowsByNetwork = NoRows
  /\ writes = {}
  /\ ust = [u \in Units |-> "PENDING"]
  /\ ops = {}
  /\ order = <<>>
  /\ pauses = {}
  /\ monthPauses = {}
  /\ snap = [s \in SheetNames |-> 0]
  /\ faults = 0
  /\ fetched = 0
  /\ numGroups = [m \in Months |-> -1]
  /\ unitCount = 0
  /\ results = <<>>
  /\ summary = [printed |-> FALSE, lines |-> 0, error |-> "none"]
  /\ exited = "no"

NoInput == [kind |-> "none"]
NoOutput == [done |-> FALSE]

Init ==
  /\ MainInit
  /\ fin = NoInput
  /\ fout = NoOutput


(* ----------------------------- helpers -------------------------------- *)
Dest == <<gi, folderMonth>>
Unit == <<gi, mi>>

STATUS_COMPLETED == "Completed"
STATUS_NO_DATA == "No data"
STATUS_SKIPPED == "Already updated for this month"
STATUS_ERROR == "Error after <duration>: <message>"

\* the object pushed to results on the three non-error paths
Result(g, m, status) == [groupId |-> g, dateRange |-> m, hasUrl |-> TRUE, status |-> status]

\* the object returned from the catch block of processGroupAnalytics
ErrorResult(g) == [groupId |-> g, dateRange |-> 0, hasUrl |-> FALSE, status |-> STATUS_ERROR]

TerminalUpc == {"skipped", "done", "failed", "nodata", "abandoned"}

\* state of the unit, in the vocabulary of the orchestrator's state machine
UState(p) ==
  CASE p \in {"find", "sheets"} -> "PENDING"
    [] p = "dedup" -> "CHECKING_DEDUP"
    [] p = "fetch" -> "FETCHING"
    [] p = "route" -> "ROUTING"
    [] p \in {"issue", "await", "title"} -> "WRITING"
    [] p = "skipped" -> "SKIPPED"
    [] p = "done" -> "DONE"
    [] p = "failed" -> "FAILED"
    [] p = "nodata" -> "NO_DATA"
    [] p = "abandoned" -> "ABANDONED"
    [] OTHER -> "PENDING"

\* number of cells of a first column that start with the month key
RECURSIVE CountMonth(_, _)
CountMonth(colA, key) ==
  IF colA = <<>> THEN 0
  ELSE (IF StartsWithKey(Head(colA), key) THEN 1 ELSE 0) + CountMonth(Tail(colA), key)

\* where processGroupAnalytics goes after the catch block built the error result
AfterUnitFailed == "failed"

\* the skip result pushed without the "continue" that ends the unit
AfterSkipRecorded_NoContinue == "fetch"

\* where processGroupAnalytics goes after pushing "Already updated for this month"
AfterSkipRecorded == "skipped"

\* processGroupAnalytics called without await: the group loop resumes as soon
\* as the unit reaches its first await after the sheets are set up
ReturnsAt_NoAwait(p) == p \in TerminalUpc \cup {"dedup"}

\* "await processGroupAnalytics(...)": the group loop resumes when the unit
\* has returned, that is when it has reached a terminal position
ReturnsAt(p) == p \in TerminalUpc

\* the unit moves to position p and pushes res to results; when it returns,
\* processMonthAnalytics pushes the results to monthResults
Advance(p, res) ==
  /\ upc' = p
  /\ ust' = [ust EXCEPT ![Unit] = UState(p)]
  /\ results' = results \o res
  /\ IF ReturnsAt(p)
       THEN /\ monthResults' = monthResults \o results'
            /\ pc' = "sleep5"
            /\ pauses' = {}
       ELSE /\ monthResults' = monthResults
            /\ pc' = pc
            /\ pauses' = pauses

\* a catch block that returns no result for the failed unit
Fail_NoResult ==
  /\ upc' = AfterUnitFailed
  /\ ust' = [ust EXCEPT ![Unit] = UState(AfterUnitFailed)]
  /\ results' = <<>>
  /\ monthResults' = monthResults
  /\ pc' = "sleep5"
  /\ pauses' = {}

\* catch (error) { ... return [{groupId, groupName, profileCount, status}] }
Fail ==
  /\ upc' = AfterUnitFailed
  /\ ust' = [ust EXCEPT ![Unit] = UState(AfterUnitFailed)]
  /\ results' = <<ErrorResult(gi)>>
  /\ IF ReturnsAt(AfterUnitFailed)
       THEN /\ monthResults' = monthResults \o results'
            /\ pc' = "sleep5"
            /\ pauses' = {}
       ELSE /\ monthResults' = monthResults
            /\ pc' = pc
            /\ pauses' = pauses

Fault == faults < MaxFaults /\ faults' = faults + 1
NoFault == faults' = faults

(* ------------------------------- main --------------------------------- *)
\* monthsToProcess: every month from January 2024 up to the current month
monthsToProcess == 1..nowMonth

\* node group-analytics.js: module load, authentication, month list
StartRun ==
  /\ pc \in {"idle", "exited"}
  /\ run < MaxRuns
  /\ unitCount < MaxUnits
  /\ writes = {}
  /\ \E nm \in nowMonth..NumMonths :
       /\ nowMonth' = nm
       /\ folderMonth' = nm - 1
  /\ run' = run + 1
  /\ UNCHANGED unitCount
  /\ numGroups' = [m \in Months |-> -1]
  /\ summary' = [printed |-> FALSE, lines |-> 0, error |-> "none"]
  /\ exited' = "no"
  /\ results' = <<>>
  /\ pc' = "month"
  /\ mi' = 1
  /\ gi' = 1
  /\ monthResults' = <<>>
  /\ allResults' = <<>>
  /\ upc' = "none"
  /\ ust' = [u \in Units |-> "PENDING"]
  /\ ops' = {}
  /\ order' = <<>>
  /\ pauses' = {}
  /\ monthPauses' = {}
  /\ UNCHANGED <<docs, unitData, writes, snap, faults, fetched>>
  /\ UNCHANGED pureVars

\* what makes authenticateAndVerifyAccess call process.exit(1): no
\* credentials found (checkCredentials), clients not initialised, or the
\* files.list test call rejected; an inaccessible folder only warns
AuthFailures ==
  {"No credentials found", "Failed to initialize Google API clients",
   "test call failed"}

\* a main that logs the failed authentication and goes on to the months
AfterAuthFailure_Continues == "month"

\* process.exit(1) in the catch of checkCredentials / authenticateAndVerifyAccess
AfterAuthFailure == "exited"

\* node group-analytics.js with an authentication that fails: the process
\* ends inside await authenticateAndVerifyAccess(), before the month list
AuthFails ==
  /\ pc \in {"idle", "exited"}
  /\ run < MaxRuns
  /\ unitCount < MaxUnits
  /\ writes = {}
  /\ Fault
  /\ \E reason \in AuthFailures : exited' = reason
  /\ run' = run + 1
  /\ pc' = AfterAuthFailure
  /\ UNCHANGED <<nowMonth, unitCount>>
  /\ numGroups' = [m \in Months |-> -1]
  /\ summary' = [printed |-> FALSE, lines |-> 0, error |-> "none"]
  /\ results' = <<>>
  /\ mi' = 1
  /\ gi' = 1
  /\ UNCHANGED folderMonth
  /\ monthResults' = <<>>
  /\ allResults' = <<>>
  /\ upc' = "none"
  /\ ust' = [u \in Units |-> "PENDING"]
  /\ ops' = {}
  /\ order' = <<>>
  /\ pauses' = {}
  /\ monthPauses' = {}
  /\ UNCHANGED <<docs, unitData, writes, snap, fetched>>
  /\ UNCHANGED pureVars

\* for (const monthDate of monthsToProcess): enter processMonthAnalytics
BeginMonth ==
  /\ pc = "month"
  /\ mi \in monthsToProcess
  /\ pc' = "groups"
  /\ UNCHANGED <<docs, runVars, mi, gi, folderMonth, monthResults, allResults, upc,
                 unitData, writes, ust, ops, order, pauses, monthPauses, snap,
                 faults, fetched, metaVars>>
  /\ UNCHANGED <<results, pureVars>>

\* processMonthAnalytics returned res: main collects it and pauses
ReturnMonth(res) ==
  /\ allResults' = allResults \o res
  /\ monthResults' = <<>>
  /\ monthPauses' = {}
  /\ IF Cardinality(monthsToProcess) > 1
       THEN pc' = "sleep10" /\ mi' = mi
       ELSE pc' = "month" /\ mi' = mi + 1

\* await sleep(10 * 60 * 1000) between months
SleepMonth ==
  /\ pc = "sleep10"
  /\ monthPauses' = monthPauses \cup {MonthPauseMs}
  /\ pauses' = pauses \cup {MonthPauseMs}
  /\ mi' = mi + 1
  /\ pc' = "month"
  /\ UNCHANGED <<docs, runVars, gi, folderMonth, monthResults, allResults,
                 upc, unitData, writes, ust, ops, order, snap, faults, fetched, metaVars>>
  /\ UNCHANGED <<results, pureVars>>

\* result.startDate.substring(0, 7): a TypeError when the result has no
\* startDate property
MonthKeyThrows(result) == "startDate" \notin DOMAIN result

\* allResults.forEach((result) => { const monthKey = result.startDate... })
SummaryThrows(all) == \E i \in 1..Len(all) : MonthKeyThrows(all[i])

\* the summary by month: one line per result, or the TypeError that main's
\* catch logs as "Error in main process"
PrintSummary(all) ==
  IF SummaryThrows(all)
    THEN [printed |-> FALSE, lines |-> 0, error |-> "TypeError"]
    ELSE [printed |-> TRUE, lines |-> Len(all), error |-> "none"]

\* the loop over months is over: the summary is printed and main returns
FinishRun ==
  /\ pc = "month"
  /\ mi \notin monthsToProcess
  /\ pc' = "idle"
  /\ summary' = PrintSummary(allResults)
  /\ UNCHANGED <<numGroups, exited>>
  /\ UNCHANGED <<docs, runVars, loopVars, monthResults, allResults, upc, unitData,
                 writes, ust, ops, order, pauses, monthPauses, snap, faults, fetched>>
  /\ UNCHANGED <<results, pureVars>>

(* ------------------------ processMonthAnalytics ----------------------- *)
\* the two metadata retry loops (customer groups, then profiles): they end
\* with non-empty lists, or attempts are exhausted and the month returns []
FetchMetadata ==
  /\ pc = "groups"
  /\ \/ /\ NoFault
        /\ \E k \in 1..NumGroups : numGroups' = [numGroups EXCEPT ![mi] = k]
        /\ UNCHANGED <<summary, exited>>
        /\ pc' = "config"
        /\ UNCHANGED <<mi, allResults, monthResults, monthPauses>>
     \/ /\ Fault
        /\ numGroups' = [numGroups EXCEPT ![mi] = 0]
        /\ UNCHANGED <<summary, exited>>
        /\ ReturnMonth(<<>>)
  /\ UNCHANGED <<docs, runVars, gi, folderMonth, upc, unitData, writes, ust,
                 ops, order, pauses, snap, fetched>>
  /\ UNCHANGED <<results, pureVars>>

\* FOLDER_CONFIGS[0] = folderConfig; const monthResults = []
SetFolderConfig ==
  /\ pc = "config"
  /\ folderMonth' = MonthYearKey(getMonthDateRange(mi).startDate)
  /\ monthResults' = <<>>
  /\ gi' = 1
  /\ pc' = "group"
  /\ UNCHANGED <<docs, runVars, mi, allResults, upc, unitData, writes, ust,
                 ops, order, pauses, monthPauses, snap, faults, fetched, metaVars>>
  /\ UNCHANGED <<results, pureVars>>

\* for (const [groupId, groupData] of Object.entries(profilesByGroup))
StartUnit ==
  /\ pc = "group"
  /\ gi \in 1..numGroups[mi]
  /\ ProfilesOf(gi) # {}
  /\ results' = <<>>
  /\ unitCount < MaxUnits
  /\ unitCount' = unitCount + 1
  /\ pc' = "unit"
  /\ upc' = "find"
  /\ ust' = [ust EXCEPT ![Unit] = "PENDING"]
  /\ order' = Append(order, Unit)
  /\ ops' = {}
  /\ createdSheets' = <<>>
  /\ si' = 1
  /\ analyticsData' = <<>>
  /\ rowsByNetwork' = NoRows
  /\ snap' = [s \in SheetNames |->
                CountMonth(docs[Dest].sheets[s].colA, folderMonth)]
  /\ UNCHANGED <<docs, run, nowMonth, loopVars, monthResults, allResults, writes,
                 pauses, monthPauses, faults, fetched, metaVars>>
  /\ UNCHANGED pureVars

\* the 10 s pause of the catch branch of the group loop taken after a failed unit
GroupPause_ShortAfterError(p) == IF p = AfterUnitFailed THEN 10000 ELSE GroupPauseMs

\* the pause after a unit that returned at position p: the same sleep for
\* every outcome, since processGroupAnalytics returns its error as a result
GroupPause(p) == GroupPauseMs

\* await sleep(5 * 60 * 1000) after the group
SleepGroup ==
  /\ pc = "sleep5"
  /\ pauses' = pauses \cup {GroupPause(upc)}
  /\ gi' = gi + 1
  /\ pc' = "group"
  /\ UNCHANGED <<docs, runVars, mi, folderMonth, monthResults, allResults,
                 upc, unitData, writes, ust, ops, order, monthPauses, snap, faults,
                 fetched, metaVars>>
  /\ UNCHANGED <<results, pureVars>>

\* the loop over groups is over: return monthResults
EndMonth ==
  /\ pc = "group"
  /\ gi \notin 1..numGroups[mi]
  /\ ReturnMonth(monthResults)
  /\ UNCHANGED <<docs, runVars, gi, folderMonth, upc, unitData, writes, ust,
                 ops, order, pauses, snap, faults, fetched, metaVars>>
  /\ UNCHANGED <<results, pureVars>>


(* ----------------------- destination operations ----------------------- *)
\* driveUtils.createSpreadsheet / updateSpreadsheetTitle: the title carries
\* "Last Updated <now>", kept as the number of the run that set it
WithTitle(D, d) == [D EXCEPT ![d].exists = TRUE, ![d].title = run]

\* driveUtils.createSheet(sheets, spreadsheetId, sheetName)
WithSheet(D, d, s) == [D EXCEPT ![d].sheets[s].created = TRUE]

\* sheetsUtil.setupSheetHeaders: the headers are written into row 1
WithHeaders(D, d, s) ==
  [D EXCEPT ![d].sheets[s].colA =
     IF @ = <<>> THEN <<HeaderCell>> ELSE [@ EXCEPT ![1] = HeaderCell]]

\* sheetsUtil.updateSheet / values.append: cells are added below the last row
WithAppended(D, d, s, cells) ==
  [D EXCEPT ![d].sheets[s].colA = @ \o cells]

\* sheetsUtils.getSheetValues(auth, spreadsheetId, sheetName, "A:A")
getSheetValues(d, s) == docs[d].sheets[s].colA

(* ----------------------- processGroupAnalytics ------------------------ *)
\* findSpreadsheetByPattern, then updateSpreadsheetTitle or createSpreadsheet
ResolveSpreadsheet ==
  /\ pc = "unit"
  /\ upc = "find"
  /\ \E outcome \in {"ok", "null", "throw"} :
       \/ /\ outcome = "ok"
          /\ NoFault
          /\ docs' = WithTitle(docs, Dest)
          /\ ops' = ops \cup {IF docs[Dest].exists THEN "rename" ELSE "create"}
          /\ Advance("sheets", <<>>)
       \/ /\ outcome = "null"
          /\ ~docs[Dest].exists
          /\ Fault
          /\ ops' = ops \cup {"create"}
          /\ Advance("abandoned", <<>>)
          /\ UNCHANGED docs
       \/ /\ outcome = "throw"
          /\ Fault
          /\ ops' = ops \cup {IF docs[Dest].exists THEN "rename" ELSE "create"}
          /\ Fail
          /\ UNCHANGED docs
  /\ UNCHANGED <<runVars, loopVars, allResults, unitData, writes, order, monthPauses,
                 snap, fetched, metaVars>>
  /\ UNCHANGED pureVars

\* the unit fetching the analytics right after the sheets are set up
AfterSheets_NoDedup == "fetch"

\* where the unit goes once the sheets of all network types are set up
AfterSheets == "dedup"

\* for (const [networkType, networkProfiles] of Object.entries(profilesByNetwork))
CreateSheets ==
  /\ pc = "unit"
  /\ upc = "sheets"
  /\ si \in 1..NumPlatforms
  /\ LET networkType == NetworkOrder[si]
         sheetName == Capitalize(networkType)
         more == si < NumPlatforms
     IN \/ /\ profilesByNetwork(gi)[si] = {}
           /\ NoFault
           /\ UNCHANGED <<docs, createdSheets, ops>>
           /\ si' = IF more THEN si + 1 ELSE 1
           /\ Advance(IF more THEN "sheets" ELSE AfterSheets, <<>>)
        \/ /\ profilesByNetwork(gi)[si] # {}
           /\ \E outcome \in {"ok", "throw"} :
                \/ /\ outcome = "ok"
                   /\ NoFault
                   /\ docs' = WithHeaders(WithSheet(docs, Dest, sheetName), Dest,
                                          SHEET_NAME(networkType))
                   /\ createdSheets' = Append(createdSheets, sheetName)
                   /\ ops' = ops \cup {"createSheet", "header"}
                   /\ si' = IF more THEN si + 1 ELSE 1
                   /\ Advance(IF more THEN "sheets" ELSE AfterSheets, <<>>)
                \/ /\ outcome = "throw"
                   /\ Fault
                   /\ ops' = ops \cup {"createSheet"}
                   /\ Fail
                   /\ UNCHANGED <<docs, createdSheets, si>>
  /\ UNCHANGED <<runVars, loopVars, allResults, analyticsData, rowsByNetwork, writes,
                 order, monthPauses, snap, fetched, metaVars>>
  /\ UNCHANGED pureVars

\* existingValues.some((row) => row[0] && row[0].startsWith(monthYearKey))
monthExists(existingValues, monthYearKey) ==
  \E i \in 1..Len(existingValues) : StartsWithKey(existingValues[i], monthYearKey)

\* if (existingValues && existingValues.length > 1) { ... monthExists ... }
SheetHasMonth(existingValues, monthYearKey) ==
  /\ Len(existingValues) > 1
  /\ monthExists(existingValues, monthYearKey)

\* the dedup loop over the first columns of the created sheets when every
\* read succeeds: existingData becomes true at the first sheet holding the month
RECURSIVE ExistingData(_, _)
ExistingData(columns, monthYearKey) ==
  IF columns = <<>> THEN FALSE
  ELSE IF SheetHasMonth(Head(columns), monthYearKey) THEN TRUE
  ELSE ExistingData(Tail(columns), monthYearKey)

\* a catch that counts the unit as already synced
AfterDedupReadFailed_Skips == "skipped"

\* catch (error) { console.warn("... Will proceed with update.") }:
\* existingData stays false and the unit goes on to the fetch
AfterDedupReadFailed == "fetch"

\* the dedup check: one sheet of createdSheets is read per step
CheckDedup ==
  /\ pc = "unit"
  /\ upc = "dedup"
  /\ LET monthYearKey == MonthYearKey(getMonthDateRange(folderMonth).startDate)
     IN IF si > Len(createdSheets)
          THEN /\ NoFault
               /\ UNCHANGED <<si, ops>>
               /\ Advance("fetch", <<>>)
          ELSE \E outcome \in {"ok", "throw"} :
                 \/ /\ outcome = "ok"
                    /\ NoFault
                    /\ ops' = ops \cup {"read"}
                    /\ IF SheetHasMonth(getSheetValues(Dest, createdSheets[si]),
                                        monthYearKey)
                         THEN /\ si' = si
                              /\ Advance(AfterSkipRecorded,
                                         <<Result(gi, folderMonth, STATUS_SKIPPED)>>)
                         ELSE /\ si' = si + 1
                              /\ Advance("dedup", <<>>)
                 \/ /\ outcome = "throw"
                    /\ Fault
                    /\ ops' = ops \cup {"read"}
                    /\ si' = si
                    /\ Advance(AfterDedupReadFailed, <<>>)
  /\ UNCHANGED <<docs, runVars, loopVars, allResults, createdSheets, analyticsData,
                 rowsByNetwork, writes, order, monthPauses, snap, fetched, metaVars>>
  /\ UNCHANGED pureVars


(* --------------------------- analytics data --------------------------- *)
\* reporting periods the analytics endpoint may return for a window: a day of
\* the window's month, or a value Date cannot parse

Periods(m) ==
  { [ym |-> m, day |-> 1, valid |-> TRUE, present |-> TRUE],
    [ym |-> 0, day |-> 0, valid |-> FALSE, present |-> TRUE] }

\* dimensions without a reporting period
NoPeriod == [ym |-> 0, day |-> 0, valid |-> FALSE, present |-> FALSE]

\* the metrics block of a data point (value stands for its numbers), or none
Metrics(value) == [present |-> TRUE, value |-> value]
NoMetrics == [present |-> FALSE, value |-> 0]

DataPoints(g, m) ==
  {[customer_profile_id |-> Num(ProfileId(g, i)), reporting_period |-> p,
    metrics |-> Metrics(1)] :
     i \in 1..NumPlatforms, p \in Periods(m)}

SeqsUpTo(S, n) == UNION {[1..k -> S] : k \in 0..n}

Batches(g, m) == SeqsUpTo(DataPoints(g, m), MaxBatch)

\* new Date(reportingPeriod).toISOString().split("T")[0]
ToIsoDate(reportingPeriod) == DateOf(reportingPeriod.ym, reportingPeriod.day)

\* if (!customerProfileId || !reportingPeriod) continue;
Skipped(dataPoint) ==
  \/ dataPoint.customer_profile_id.t = "undefined"
  \/ ~dataPoint.reporting_period.present

\* new Date(reportingPeriod).toISOString() raises RangeError on an invalid date
GroupingThrows(data) ==
  \E i \in 1..Len(data) : ~Skipped(data[i]) /\ ~data[i].reporting_period.valid

\* const key = `${customerProfileId}_${date}`: the digits of the id, whether
\* it is a number or a string, then the date
KeyOf(dataPoint) ==
  <<dataPoint.customer_profile_id.v, ToIsoDate(dataPoint.reporting_period)>>

\* a grouping in which a later data point replaces the earlier one of its key
RECURSIVE GroupByProfileAndDate_LastWins(_, _)
GroupByProfileAndDate_LastWins(data, seen) ==
  IF data = <<>> THEN <<>>
  ELSE LET dataPoint == data[Len(data)]
           key == KeyOf(dataPoint)
           front == SubSeq(data, 1, Len(data) - 1)
       IN IF Skipped(dataPoint) \/ key \in seen
            THEN GroupByProfileAndDate_LastWins(front, seen)
            ELSE GroupByProfileAndDate_LastWins(front, seen \cup {key})
                 \o <<[profileId |-> dataPoint.customer_profile_id,
                        date |-> ToIsoDate(dataPoint.reporting_period),
                        dataPoint |-> dataPoint]>>

\* dataByProfileAndDate: the first data point of every key, in insertion order
RECURSIVE GroupByProfileAndDate(_, _)
GroupByProfileAndDate(data, seen) ==
  IF data = <<>> THEN <<>>
  ELSE LET dataPoint == Head(data)
           key == KeyOf(dataPoint)
       IN IF Skipped(dataPoint) \/ key \in seen
            THEN GroupByProfileAndDate(Tail(data), seen)
            ELSE <<[profileId |-> dataPoint.customer_profile_id,
                    date |-> ToIsoDate(dataPoint.reporting_period),
                    dataPoint |-> dataPoint]>>
                 \o GroupByProfileAndDate(Tail(data), seen \cup {key})

\* parseInt of an id: the number its digits denote
ParseInt(id) == Num(id.v)

\* a === b: same type and same value
StrictEquals(a, b) == a.t = b.t /\ a.v = b.v

\* profiles.find((p) => p.customer_profile_id === parseInt(profileId))
FindProfile(profiles, profileId) ==
  {p \in profiles : StrictEquals(p.customer_profile_id, ParseInt(profileId))}

\* the keys of networkModules
ModuleKeys == {NetworkOrder[i] : i \in 1..Len(NetworkOrder)}

\* HEADERS.length of each platform module
TwitterHeaders == 32
LinkedinHeaders == 23
InstagramHeaders == 25
YoutubeHeaders == 13
FacebookHeaders == 56

\* networkModules[module].HEADERS.length
HeadersLength(module) ==
  CASE module = "twitter" -> TwitterHeaders
    [] module = "linkedin" -> LinkedinHeaders
    [] module = "instagram" -> InstagramHeaders
    [] module = "youtube" -> YoutubeHeaders
    [] module = "facebook" -> FacebookHeaders

\* number of entries of the array literal each formatAnalyticsData returns
TwitterRow == 32
LinkedinRow == 23
InstagramRow == 25
YoutubeRow == 13
FacebookRow == 56

\* a Twitter row that lacks its last column
RowLength_TwitterShort(module) ==
  CASE module = "twitter" -> TwitterRow - 1
    [] module = "linkedin" -> LinkedinRow
    [] module = "instagram" -> InstagramRow
    [] module = "youtube" -> YoutubeRow
    [] module = "facebook" -> FacebookRow

\* the length of the row networkModules[module].formatAnalyticsData returns
RowLength(module) ==
  CASE module = "twitter" -> TwitterRow
    [] module = "linkedin" -> LinkedinRow
    [] module = "instagram" -> InstagramRow
    [] module = "youtube" -> YoutubeRow
    [] module = "facebook" -> FacebookRow

\* if (!dataPoint || !dataPoint.metrics) return null: every module but Facebook
ChecksMetrics(module) == module # "facebook"

\* the "no row" result
NullRow == [null |-> TRUE, date |-> DateOf(0, 0), profileId |-> Undefined,
            value |-> 0, length |-> 0]

\* a normalizer that builds the row from whatever it is given
formatAnalyticsData_NoGuards(module, dataPoint, profile) ==
  [null |-> FALSE,
   date |-> ToIsoDate(dataPoint.reporting_period),
   profileId |-> profile.customer_profile_id,
   value |-> dataPoint.metrics.value,
   length |-> RowLength(module)]

\* module.formatAnalyticsData(dataPoint, profile): null without metrics or
\* without reporting period; what throws inside (reading a metric of an
\* absent block in the Facebook module, toISOString of an invalid date) is
\* caught and gives null too; else the row, whose column A holds the date
formatAnalyticsData(module, dataPoint, profile) ==
  IF ChecksMetrics(module) /\ ~dataPoint.metrics.present THEN NullRow
  ELSE IF ~dataPoint.reporting_period.present THEN NullRow
  ELSE IF ~dataPoint.reporting_period.valid THEN NullRow
  ELSE IF ~dataPoint.metrics.present THEN NullRow
  ELSE [null |-> FALSE,
        date |-> ToIsoDate(dataPoint.reporting_period),
        profileId |-> profile.customer_profile_id,
        value |-> dataPoint.metrics.value,
        length |-> RowLength(module)]

\* what the routing loop does with one entry: the message it logs, the
\* network type it resolved and the row it pushed (NullRow: none)
EntryOutcome(e, profiles) ==
  LET found == FindProfile(profiles, e.profileId)
  IN IF found = {}
       THEN [msg |-> "Profile not found for ID", networkType |-> "none", row |-> NullRow]
       ELSE LET profile == CHOOSE p \in found : TRUE
                networkType == networkTypeMapping(profile.network_type)
            IN IF networkType \notin ModuleKeys
                 THEN [msg |-> "No formatter found for network type",
                       networkType |-> networkType, row |-> NullRow]
                 ELSE LET row == formatAnalyticsData(networkType, e.dataPoint, profile)
                      IN IF row.null
                           THEN [msg |-> "No row generated", networkType |-> networkType,
                                 row |-> NullRow]
                           ELSE [msg |-> "Added row", networkType |-> networkType,
                                 row |-> row]

\* rowsByNetwork[networkType]: the rows of the entries routed to networkType
RECURSIVE RowsFor(_, _, _)
RowsFor(entries, profiles, networkType) ==
  IF entries = <<>> THEN <<>>
  ELSE LET outcome == EntryOutcome(Head(entries), profiles)
           rest == RowsFor(Tail(entries), profiles, networkType)
       IN IF outcome.msg = "Added row" /\ outcome.networkType = networkType
            THEN <<outcome.row>> \o rest
            ELSE rest

\* the console messages of the routing loop, one per entry
RouteLog(entries, profiles) ==
  [i \in 1..Len(entries) |-> EntryOutcome(entries[i], profiles).msg]

Route(data, profiles) ==
  [n \in Networks |-> RowsFor(GroupByProfileAndDate(data, {}), profiles, n)]

\* apiUtils.getAnalyticsData(ANALYTICS_URL, token, startDate, endDate, profileIds)
\* what getAnalyticsData may resolve to: nothing, an object without a data
\* list, or an object with a data list
Responses(g, m) ==
  {[kind |-> "null", data |-> <<>>], [kind |-> "nolist", data |-> <<>>]}
  \cup {[kind |-> "list", data |-> d] : d \in Batches(g, m)}

\* a test that forgets the empty list
HasNoData_ListAccepted(response) == response.kind # "list"

\* !analyticsData || !analyticsData.data || analyticsData.data.length === 0
HasNoData(response) ==
  \/ response.kind = "null"
  \/ response.kind = "nolist"
  \/ Len(response.data) = 0

FetchAnalytics ==
  /\ pc = "unit"
  /\ upc = "fetch"
  /\ ops' = ops \cup {"fetch"}
  /\ \/ \E response \in Responses(gi, folderMonth) :
          /\ NoFault
          /\ Len(response.data) > 0 => fetched < MaxData
          /\ fetched' = IF Len(response.data) > 0 THEN fetched + 1 ELSE fetched
          /\ analyticsData' = response.data
          /\ IF HasNoData(response)
               THEN Advance("nodata", <<Result(gi, folderMonth, STATUS_NO_DATA)>>)
               ELSE Advance("route", <<>>)
     \/ /\ Fault
        /\ UNCHANGED <<analyticsData, fetched>>
        /\ Fail
  /\ UNCHANGED <<docs, runVars, loopVars, allResults, createdSheets, si, rowsByNetwork,
                 writes, order, monthPauses, snap, metaVars>>
  /\ UNCHANGED pureVars

\* group the data by profile and date, format one row per entry
RouteRows ==
  /\ pc = "unit"
  /\ upc = "route"
  /\ IF GroupingThrows(analyticsData)
       THEN /\ UNCHANGED rowsByNetwork
            /\ Fail
       ELSE /\ rowsByNetwork' = Route(analyticsData, ProfilesOf(gi))
            /\ Advance("issue", <<>>)
  /\ analyticsData' = <<>>
  /\ UNCHANGED <<docs, runVars, loopVars, allResults, createdSheets, si,
                 writes, ops, order, monthPauses, snap, faults, fetched, metaVars>>
  /\ UNCHANGED pureVars

InSeq(x, sq) == \E i \in 1..Len(sq) : sq[i] = x

\* updatePromises: one updateWithTiming() per network type that has rows and
\* whose sheet was created; the call runs up to its first await at once
IssuedWrites(rows, created, d, r) ==
  {[dest |-> d, run |-> r, networkType |-> n, sheet |-> SHEET_NAME(n),
    rows |-> rows[n], phase |-> "rows"] :
     n \in {x \in Networks : Len(rows[x]) > 0 /\ InSeq(Capitalize(x), created)}}

IssueWrites ==
  /\ pc = "unit"
  /\ upc = "issue"
  /\ LET issued == IssuedWrites(rowsByNetwork, createdSheets, Dest, run)
     IN /\ writes' = writes \cup issued
        /\ ops' = IF issued = {} THEN ops ELSE ops \cup {"append"}
  /\ rowsByNetwork' = NoRows
  /\ Advance("await", <<>>)
  /\ UNCHANGED <<docs, runVars, loopVars, allResults, createdSheets, si, analyticsData,
                 order, monthPauses, snap, faults, fetched, metaVars>>
  /\ UNCHANGED pureVars

\* the writes of the unit that is awaiting Promise.all(updatePromises)
Awaited == {w \in writes : pc = "unit" /\ upc = "await" /\ w.dest = Dest /\ w.run = run}

RECURSIVE CellsOf(_, _)
CellsOf(rows, by) ==
  IF rows = <<>> THEN <<>>
  ELSE <<Cell(Head(rows).date, by, "row")>> \o CellsOf(Tail(rows), by)

\* await module.updateSheet(sheetsUtils, auth, spreadsheetId, rows)
UpdateSheet(w) ==
  /\ w \in writes
  /\ w.phase = "rows"
  /\ \E outcome \in {"ok", "false", "throw"} :
       \/ /\ outcome = "ok"
          /\ NoFault
          /\ docs' = WithAppended(docs, w.dest, w.sheet, CellsOf(w.rows, w.run))
          /\ writes' = (writes \ {w}) \cup {[w EXCEPT !.phase = "summary"]}
          /\ UNCHANGED <<pc, upc, ust, monthResults, pauses, results>>
       \/ /\ outcome = "false"
          /\ Fault
          /\ writes' = (writes \ {w}) \cup {[w EXCEPT !.phase = "summary"]}
          /\ UNCHANGED <<docs, pc, upc, ust, monthResults, pauses, results>>
       \/ /\ outcome = "throw"
          /\ Fault
          /\ writes' = writes \ {w}
          /\ UNCHANGED docs
          /\ IF w \in Awaited
               THEN Fail
               ELSE UNCHANGED <<pc, upc, ust, monthResults, pauses, results>>
  /\ UNCHANGED <<runVars, loopVars, allResults, unitData, ops, order, monthPauses,
                 snap, fetched, metaVars>>
  /\ UNCHANGED pureVars

\* data.filter(row => month and year of row[0] are those of today)
currentMonthData(rows) == SelectSeq(rows, LAMBDA row : row.date.ym = nowMonth)

\* await module.addMonthlySummary(sheets, spreadsheetId, rows): the summary
\* row is dated with the last day of the current month; errors are caught
AddMonthlySummary(w) ==
  /\ w \in writes
  /\ w.phase = "summary"
  /\ writes' = writes \ {w}
  /\ \/ /\ NoFault
        /\ docs' = IF currentMonthData(w.rows) = <<>> THEN docs
                   ELSE WithAppended(docs, w.dest, w.sheet,
                          <<Cell(getMonthDateRange(nowMonth).endDate, w.run, "summary")>>)
     \/ /\ currentMonthData(w.rows) # <<>>
        /\ Fault
        /\ UNCHANGED docs
  /\ UNCHANGED <<runVars, loopVars, allResults, unitData, ops, order, monthPauses,
                 snap, fetched, metaVars, pc, upc, ust, monthResults,
                 pauses>>
  /\ UNCHANGED <<results, pureVars>>

\* await Promise.all(updatePromises) resolves: every update has completed
AwaitUpdates ==
  /\ pc = "unit"
  /\ upc = "await"
  /\ Awaited = {}
  /\ Advance("title", <<>>)
  /\ UNCHANGED <<docs, runVars, loopVars, allResults, unitData, writes, ops, order,
                 monthPauses, snap, faults, fetched, metaVars>>
  /\ UNCHANGED pureVars

\* the final updateSpreadsheetTitle, then results.push({... "Completed"})
FinalTitle ==
  /\ pc = "unit"
  /\ upc = "title"
  /\ ops' = ops \cup {"rename"}
  /\ \/ /\ NoFault
        /\ docs' = WithTitle(docs, Dest)
        /\ Advance("done", <<Result(gi, folderMonth, STATUS_COMPLETED)>>)
     \/ /\ Fault
        /\ UNCHANGED docs
        /\ Fail
  /\ UNCHANGED <<runVars, loopVars, allResults, unitData, writes, order, monthPauses,
                 snap, fetched, metaVars>>
  /\ UNCHANGED pureVars

(* --------------------------- specification ---------------------------- *)
Next ==
  \/ StartRun
  \/ AuthFails
  \/ BeginMonth
  \/ FetchMetadata
  \/ SetFolderConfig
  \/ StartUnit
  \/ ResolveSpreadsheet
  \/ CreateSheets
  \/ CheckDedup
  \/ FetchAnalytics
  \/ RouteRows
  \/ IssueWrites
  \/ \E w \in writes : UpdateSheet(w)
  \/ \E w \in writes : AddMonthlySummary(w)
  \/ AwaitUpdates
  \/ FinalTitle
  \/ SleepGroup
  \/ EndMonth
  \/ SleepMonth
  \/ FinishRun

Spec == Init /\ [][Next]_vars

(* ------------------ the dedup check as a function --------------------- *)
\* first columns the created sheets may hold: up to MaxColumn cells, each a
\* header, a date of the window's month or a date of another month
MaxColumn == 2

ColumnCells(m) ==
  { HeaderCell } \cup
  { Cell(DateOf(k, 1), 1, "row") : k \in {m, m + 1} }

Columns(m) == UNION { [1..n -> ColumnCells(m)] : n \in 0..MaxColumn }

DedupInputs ==
  { [kind |-> "dedup", month |-> m, columns |-> c] :
      m \in {1}, c \in [1..NumPlatforms -> Columns(1)] }

DedupInit ==
  /\ MainInit
  /\ fin \in DedupInputs
  /\ fout = NoOutput

\* run the dedup check on the sheets of fin
ApplyDedup ==
  /\ fin.kind = "dedup"
  /\ ~fout.done
  /\ fout' = [done |-> TRUE,
              existingData |->
                ExistingData(fin.columns,
                             MonthYearKey(getMonthDateRange(fin.month).startDate))]
  /\ UNCHANGED <<docs, runVars, pc, loopVars, monthResults, allResults, upc,
                 unitData, writes, ust, ops, order, pauses, monthPauses, snap,
                 faults, fetched, metaVars, results, fin>>

DedupNext == ApplyDedup

SpecDedup == DedupInit /\ [][DedupNext]_vars

(* --------------- the metadata retry loops, attempt by attempt ---------- *)
\* everything but the input and the state of a function applied on its own
mainVars == <<docs, runVars, pc, loopVars, monthResults, allResults, upc,
              unitData, writes, ust, ops, order, pauses, monthPauses, snap,
              faults, fetched, metaVars, results>>

\* for (let attempt = 1; attempt <= 3; attempt++)
MaxAttempts == 3

\* await sleep(10000)
RetryPauseMs == 10000

\* the two loops of processMonthAnalytics, in program order
RetryLoops == <<"groups", "profiles">>

\* fout while the loops run: the loop under way, its attempt, the lists
\* fetched so far ("none": still the initial []), the calls and pauses made,
\* and how processMonthAnalytics went on ("grouping") or what it returned
RetryStart ==
  [done |-> FALSE, loop |-> 1, attempt |-> 1, sleeping |-> FALSE,
   lists |-> [l \in {"groups", "profiles"} |-> "empty"],
   log |-> <<>>, exit |-> "none"]

RetryInit ==
  /\ MainInit
  /\ fin = [kind |-> "retry"]
  /\ fout = RetryStart

CallEvent(loop, attempt, outcome) ==
  [ev |-> "call", loop |-> loop, attempt |-> attempt, outcome |-> outcome, ms |-> 0]

SleepEvent(loop, attempt, ms) ==
  [ev |-> "sleep", loop |-> loop, attempt |-> attempt, outcome |-> "none", ms |-> ms]

\* a pause taken after the last attempt too
PauseFollows_EveryAttempt(attempt) == TRUE

\* if (attempt < 3) { await sleep(10000) }
PauseFollows(attempt) == attempt < MaxAttempts

\* the loop is over: if (list.length === 0) return []; else the next loop,
\* and after the profiles loop the grouping of the profiles
AfterLoop(st) ==
  IF st.lists[RetryLoops[st.loop]] = "empty"
    THEN [st EXCEPT !.done = TRUE, !.exit = "return []"]
    ELSE IF st.loop < Len(RetryLoops)
      THEN [st EXCEPT !.loop = @ + 1, !.attempt = 1]
      ELSE [st EXCEPT !.done = TRUE, !.exit = "grouping"]

\* one attempt: the call answers a non-empty list (break), an empty list, or throws
Attempt ==
  /\ fin.kind = "retry"
  /\ ~fout.done
  /\ ~fout.sleeping
  /\ fout.attempt <= MaxAttempts
  /\ \E outcome \in {"list", "empty", "throw"} :
       LET l == RetryLoops[fout.loop]
           called == [fout EXCEPT
                        !.log = Append(@, CallEvent(l, fout.attempt, outcome)),
                        !.lists[l] = IF outcome = "throw" THEN @ ELSE outcome]
       IN fout' =
            IF outcome = "list" THEN AfterLoop(called)
            ELSE IF PauseFollows(fout.attempt)
              THEN [called EXCEPT !.sleeping = TRUE]
              ELSE IF fout.attempt + 1 <= MaxAttempts
                THEN [called EXCEPT !.attempt = @ + 1]
                ELSE AfterLoop(called)
  /\ UNCHANGED <<mainVars, fin>>

\* await sleep(10000), then attempt++ and the loop test
RetrySleep ==
  /\ fin.kind = "retry"
  /\ ~fout.done
  /\ fout.sleeping
  /\ LET l == RetryLoops[fout.loop]
         slept == [fout EXCEPT
                     !.log = Append(@, SleepEvent(l, fout.attempt, RetryPauseMs)),
                     !.sleeping = FALSE]
     IN fout' = IF fout.attempt + 1 <= MaxAttempts
                  THEN [slept EXCEPT !.attempt = @ + 1]
                  ELSE AfterLoop(slept)
  /\ UNCHANGED <<mainVars, fin>>

RetryNext == Attempt \/ RetrySleep

SpecRetry == RetryInit /\ [][RetryNext]_vars

(* ================= grouping, routing and the sheet loop ================= *)
\* the three loops of processGroupAnalytics between the fetch and
\* Promise.all, applied on their own to one batch, one profile list and one
\* list of created sheets (SpecRoute)
MaxRouteBatch == 2

\* customer_profile_id of a data point: a number, the string of its digits,
\* absent, or the id of no profile
RouteIds == {Num(ProfileId(1, 1)), Str(ProfileId(1, 1)), Undefined, Num(99)}

\* reporting period of a data point: a day of month 1, or absent
RoutePeriods ==
  {[ym |-> 1, day |-> d, valid |-> TRUE, present |-> TRUE] : d \in 1..2}
    \cup {NoPeriod}

RouteDataPoints ==
  {[customer_profile_id |-> id, reporting_period |-> p, metrics |-> mt] :
     id \in RouteIds, p \in RoutePeriods,
     mt \in {NoMetrics, Metrics(1)}}

\* network_type of a profile: the five keys of the table and two other values
RouteTypes ==
  {"linkedin_company", "fb_instagram_account", "fb_page", "youtube_channel",
   "twitter_profile", "TikTok", "Twitter"}

\* the profile list: one profile, its id a number or the string of its digits
RouteProfiles ==
  {{[customer_profile_id |-> id, network_type |-> raw]} :
     id \in {Num(ProfileId(1, 1)), Str(ProfileId(1, 1))}, raw \in RouteTypes}

\* createdSheets: every sheet, or none
AllSheets == [i \in 1..Len(NetworkOrder) |-> Capitalize(NetworkOrder[i])]

RouteInputs ==
  [kind : {"route"}, data : SeqsUpTo(RouteDataPoints, MaxRouteBatch),
   profiles : RouteProfiles, created : {AllSheets, <<>>}]

RouteInit ==
  /\ MainInit
  /\ fin \in RouteInputs
  /\ fout = NoOutput

\* rowsByNetwork, over all five keys
RouteAll(entries, profiles) ==
  [n \in ModuleKeys |-> RowsFor(entries, profiles, n)]

\* the message the sheet loop logs for one network type
SheetOutcome(rows, created, n) ==
  IF Len(rows[n]) = 0 THEN "No rows to update"
  ELSE IF InSeq(Capitalize(n), created) THEN "Starting sheet update"
  ELSE "Sheet not created, skipping update"

\* group fin.data, route the entries, walk rowsByNetwork
ApplyRoute ==
  /\ fin.kind = "route"
  /\ ~fout.done
  /\ LET entries == GroupByProfileAndDate(fin.data, {})
         rows == RouteAll(entries, fin.profiles)
     IN fout' = [done |-> TRUE,
                 entries |-> entries,
                 outcomes |-> [i \in 1..Len(entries) |->
                                 EntryOutcome(entries[i], fin.profiles)],
                 log |-> RouteLog(entries, fin.profiles),
                 rows |-> rows,
                 sheetLog |-> [n \in ModuleKeys |->
                                 SheetOutcome(rows, fin.created, n)]]
  /\ UNCHANGED <<mainVars, fin>>

RouteNext == ApplyRoute

SpecRoute == RouteInit /\ [][RouteNext]_vars

(* ============================ month windows ============================ *)
\* the loop of main that fills monthsToProcess, and the date range of each
\* of its months, applied on their own to one current date (SpecWindows)
MaxNowMonth == 26

\* new Date(): a day of a month from January 2024 on
Nows ==
  UNION {{DateOf(ym, day) : day \in 1..DaysInMonth(ym)} : ym \in 1..MaxNowMonth}

\* const startDate = new Date(2024, 0, 1); let currentMonth = new Date(startDate)
WindowsStart ==
  [done |-> FALSE, currentMonth |-> DateOf(1, 1), monthsToProcess |-> <<>>,
   windows |-> <<>>]

WindowsInit ==
  /\ MainInit
  /\ fin \in [kind : {"windows"}, now : Nows]
  /\ fout = WindowsStart

\* currentMonth <= currentDate: currentMonth is a midnight, currentDate a
\* time of its day
NotAfter(date, now) ==
  date.ym < now.ym \/ (date.ym = now.ym /\ date.day <= now.day)

\* monthsToProcess.push(new Date(currentMonth));
\* currentMonth.setMonth(currentMonth.getMonth() + 1)
PushMonth ==
  /\ fin.kind = "windows"
  /\ ~fout.done
  /\ NotAfter(fout.currentMonth, fin.now)
  /\ fout' = [fout EXCEPT
                !.monthsToProcess = Append(@, fout.currentMonth),
                !.currentMonth = DateOf(@.ym + 1, @.day)]
  /\ UNCHANGED <<mainVars, fin>>

\* the loop is left; getMonthDateRange(monthDate) of every month
EndMonths ==
  /\ fin.kind = "windows"
  /\ ~fout.done
  /\ ~NotAfter(fout.currentMonth, fin.now)
  /\ fout' = [fout EXCEPT
                !.done = TRUE,
                !.windows = [i \in 1..Len(fout.monthsToProcess) |->
                               getMonthDateRange(fout.monthsToProcess[i].ym)]]
  /\ UNCHANGED <<mainVars, fin>>

WindowsNext == PushMonth \/ EndMonths

SpecWindows == WindowsInit /\ [][WindowsNext]_vars

(* ===================== derived metrics of a row ======================== *)
\* formatAnalyticsData of the four modules that emit engagement rates,
\* applied on its own to one metrics mapping (SpecRates); a rate is held in
\* hundredths of a percent, as toFixed(2) leaves two decimals
MaxCount == 3
MaxCounters == 2

RateModules == {"twitter", "linkedin", "instagram", "facebook"}

\* the keys of dataPoint.metrics each module reads for its derived metrics
MetricKeys(module) ==
  CASE module = "twitter" ->
         {"likes", "comments_count", "shares_count", "post_link_clicks",
          "post_content_clicks_other", "engagements_other", "impressions",
          "lifetime_snapshot.followers_count"}
    [] module = "linkedin" ->
         {"reactions", "comments_count", "shares_count", "post_link_clicks",
          "post_content_clicks", "impressions",
          "lifetime_snapshot.followers_count"}
    [] module = "instagram" ->
         {"post_likes", "likes", "comments_count", "shares_count",
          "post_saves", "saves", "story_replies", "impressions",
          "lifetime_snapshot.followers_count"}
    [] module = "facebook" ->
         {"reactions", "comments_count", "shares_count", "post_link_clicks",
          "post_content_clicks_other", "impressions",
          "lifetime_snapshot.followers_count"}

\* dataPoint.metrics: at most MaxCounters counters of the module, each a
\* number up to MaxCount
MetricsOf(module) ==
  UNION {[K -> 0..MaxCount] :
           K \in {S \in SUBSET MetricKeys(module) : Cardinality(S) <= MaxCounters}}

\* a Twitter data point with five counters
ExampleMetrics ==
  ("likes" :> 10) @@ ("comments_count" :> 2) @@ ("shares_count" :> 1) @@
  ("post_link_clicks" :> 3) @@ ("post_content_clicks_other" :> 0)

RateInputs ==
  UNION {{[kind |-> "rates", module |-> module, metrics |-> metrics] :
            metrics \in MetricsOf(module)} : module \in RateModules}
    \cup {[kind |-> "rates", module |-> "twitter", metrics |-> ExampleMetrics]}

RatesInit ==
  /\ MainInit
  /\ fin \in RateInputs
  /\ fout = NoOutput

\* parseFloat(metrics[key] || 0): an absent counter counts as 0
OrZero(metrics, key) == IF key \in DOMAIN metrics THEN metrics[key] ELSE 0

\* safeNumber(metrics[key]): the number, 0 for an absent one
safeNumber(metrics, key) == IF key \in DOMAIN metrics THEN metrics[key] ELSE 0

\* metrics["post_likes"] !== undefined ? "post_likes" : "likes"
likesMetric(metrics) == IF "post_likes" \in DOMAIN metrics THEN "post_likes" ELSE "likes"
savesMetric(metrics) == IF "post_saves" \in DOMAIN metrics THEN "post_saves" ELSE "saves"

\* a Twitter total that leaves engagements_other out
engagements_WithoutOther(module, metrics) ==
  CASE module = "twitter" ->
         OrZero(metrics, "likes") + OrZero(metrics, "comments_count")
         + OrZero(metrics, "shares_count") + OrZero(metrics, "post_link_clicks")
         + OrZero(metrics, "post_content_clicks_other")
    [] OTHER -> 0

\* const engagements = ... of each module
engagements(module, metrics) ==
  CASE module = "twitter" ->
         OrZero(metrics, "likes") + OrZero(metrics, "comments_count")
         + OrZero(metrics, "shares_count") + OrZero(metrics, "post_link_clicks")
         + OrZero(metrics, "post_content_clicks_other")
         + OrZero(metrics, "engagements_other")
    [] module = "linkedin" ->
         OrZero(metrics, "reactions") + OrZero(metrics, "comments_count")
         + OrZero(metrics, "shares_count") + OrZero(metrics, "post_link_clicks")
         + OrZero(metrics, "post_content_clicks")
    [] module = "instagram" ->
         OrZero(metrics, likesMetric(metrics)) + OrZero(metrics, "comments_count")
         + OrZero(metrics, "shares_count") + OrZero(metrics, savesMetric(metrics))
         + OrZero(metrics, "story_replies")
    [] module = "facebook" ->
         OrZero(metrics, "reactions") + OrZero(metrics, "comments_count")
         + OrZero(metrics, "shares_count") + OrZero(metrics, "post_link_clicks")
         + OrZero(metrics, "post_content_clicks_other")

\* parseFloat(((numerator / denominator) * 100).toFixed(2)), in hundredths:
\* the nearest number of two decimals, the larger of two equally near ones
Percent(numerator, denominator) ==
  (2 * numerator * 10000 + denominator) \div (2 * denominator)

\* a rate that divides without looking at its denominator; a division by 0
\* gives NaN or Infinity, held as -1
Rate_Unguarded(numerator, denominator) ==
  IF denominator = 0 THEN -1 ELSE Percent(numerator, denominator)

\* denominator > 0 ? parseFloat(((numerator / denominator) * 100).toFixed(2)) : 0
Rate(numerator, denominator) ==
  IF denominator > 0 THEN Percent(numerator, denominator) ELSE 0

engagementRatePerImpression(module, metrics) ==
  Rate(engagements(module, metrics), OrZero(metrics, "impressions"))

engagementRatePerFollower(module, metrics) ==
  Rate(engagements(module, metrics),
       OrZero(metrics, "lifetime_snapshot.followers_count"))

\* the clicks a module divides by impressions: Instagram has no such rate
EmitsClickThroughRate(module) == module \in {"twitter", "linkedin", "facebook"}

\* a LinkedIn rate over the link clicks alone
clicks_LinkOnly(module, metrics) == OrZero(metrics, "post_link_clicks")

clicks(module, metrics) ==
  IF module = "linkedin"
    THEN OrZero(metrics, "post_link_clicks") + OrZero(metrics, "post_content_clicks")
    ELSE OrZero(metrics, "post_link_clicks")

clickThroughRate(module, metrics) ==
  Rate(clicks(module, metrics), OrZero(metrics, "impressions"))

\* HEADERS of each module: the position (from 1) of the columns followed here
HEADERS(module) ==
  CASE module = "twitter" ->
         ("Lifetime Followers Count" :> 6) @@ ("Total Impressions" :> 8) @@
         ("Total Link Clicks" :> 16) @@ ("Posts Published Count" :> 26) @@
         ("Total Engagement Actions" :> 29) @@
         ("Engagement Rate % (per Impression)" :> 30) @@
         ("Engagement Rate % (per Follower)" :> 31) @@
         ("Click-Through Rate %" :> 32)
    [] module = "linkedin" ->
         ("Total Link Clicks" :> 14) @@ ("Total Content Clicks" :> 15) @@
         ("Posts Published Count" :> 16) @@ ("Total Impressions" :> 18) @@
         ("Lifetime Followers Count" :> 19) @@
         ("Total Engagement Actions" :> 20) @@
         ("Engagement Rate % (per Impression)" :> 21) @@
         ("Engagement Rate % (per Follower)" :> 22) @@
         ("Click-Through Rate %" :> 23)
    [] module = "instagram" ->
         ("Total Impressions" :> 6) @@ ("Posts Published Count" :> 15) @@
         ("Lifetime Followers Count" :> 21) @@
         ("Total Engagement Actions" :> 23) @@
         ("Engagement Rate % (per Impression)" :> 24) @@
         ("Engagement Rate % (per Follower)" :> 25)
    [] module = "youtube" ->
         ("Followers Count" :> 6) @@ ("Posts Sent Count" :> 10)
    [] module = "facebook" ->
         ("Lifetime Followers Count" :> 6) @@ ("Total Impressions" :> 17) @@
         ("Total Link Clicks" :> 38) @@ ("Unique Video Views" :> 49) @@
         ("Posts Published Count" :> 50) @@
         ("Total Engagement Actions" :> 53) @@
         ("Engagement Rate % (per Impression)" :> 54) @@
         ("Engagement Rate % (per Follower)" :> 55) @@
         ("Click-Through Rate %" :> 56)

\* the array literal formatAnalyticsData returns: the value at each position
\* (from 1) followed here
Row(module, metrics) ==
  CASE module = "twitter" ->
         (6 :> safeNumber(metrics, "lifetime_snapshot.followers_count")) @@
         (8 :> safeNumber(metrics, "impressions")) @@
         (16 :> safeNumber(metrics, "post_link_clicks")) @@
         (29 :> engagements(module, metrics)) @@
         (30 :> engagementRatePerImpression(module, metrics)) @@
         (31 :> engagementRatePerFollower(module, metrics)) @@
         (32 :> clickThroughRate(module, metrics))
    [] module = "linkedin" ->
         (14 :> safeNumber(metrics, "post_link_clicks")) @@
         (15 :> safeNumber(metrics, "post_content_clicks")) @@
         (18 :> safeNumber(metrics, "impressions")) @@
         (19 :> safeNumber(metrics, "lifetime_snapshot.followers_count")) @@
         (20 :> engagements(module, metrics)) @@
         (21 :> engagementRatePerImpression(module, metrics)) @@
         (22 :> engagementRatePerFollower(module, metrics)) @@
         (23 :> clickThroughRate(module, metrics))
    [] module = "instagram" ->
         (6 :> safeNumber(metrics, "impressions")) @@
         (21 :> safeNumber(metrics, "lifetime_snapshot.followers_count")) @@
         (23 :> engagements(module, metrics)) @@
         (24 :> engagementRatePerImpression(module, metrics)) @@
         (25 :> engagementRatePerFollower(module, metrics))
    [] module = "facebook" ->
         (6 :> safeNumber(metrics, "lifetime_snapshot.followers_count")) @@
         (17 :> safeNumber(metrics, "impressions")) @@
         (38 :> safeNumber(metrics, "post_link_clicks")) @@
         (53 :> engagements(module, metrics)) @@
         (54 :> engagementRatePerImpression(module, metrics)) @@
         (55 :> engagementRatePerFollower(module, metrics)) @@
         (56 :> clickThroughRate(module, metrics))

\* module.formatAnalyticsData(dataPoint, profile) on the metrics of fin
ApplyFormat ==
  /\ fin.kind = "rates"
  /\ ~fout.done
  /\ fout' = [done |-> TRUE, row |-> Row(fin.module, fin.metrics)]
  /\ UNCHANGED <<mainVars, fin>>

RatesNext == ApplyFormat

SpecRates == RatesInit /\ [][RatesNext]_vars

(* ========================== overlapping runs =========================== *)
\* processes started by runAnalytics, each running processGroupAnalytics for
\* the same group and month on the same spreadsheet (SpecOverlap)
MaxProcesses == 2

Processes == 1..MaxProcesses

\* who calls runAnalytics: the GET /run handler, or checkSchedule
Triggers == {"GET /run", "scheduler"}

\* the sheets of the spreadsheet, in the order of createdSheets
OverlapSheets == [i \in 1..NumPlatforms |-> Capitalize(NetworkOrder[i])]

\* the month both runs process
OverlapMonth == 1

IdleProcess == [pc |-> "none", trigger |-> "none", si |-> 1, pending |-> {}]

\* position of a process that is inside processGroupAnalytics
ActivePcs == {"dedup", "fetch", "write"}

\* the spreadsheet after setupSheetHeaders, and no process started
OverlapStart ==
  [done |-> FALSE,
   sheets |-> [s \in SheetNames |-> <<HeaderCell>>],
   procs |-> [p \in Processes |-> IdleProcess],
   overlapped |-> FALSE]

OverlapInit ==
  /\ MainInit
  /\ fin = [kind |-> "overlap"]
  /\ fout = OverlapStart

\* runAnalytics: exec(`node ${ANALYTICS_SCRIPT}`) on every call, whatever
\* other script is running
MayStart(procs) == TRUE

\* GET /run or the scheduler calls runAnalytics: a new node process
Spawn(p) ==
  /\ fin.kind = "overlap"
  /\ fout.procs[p].pc = "none"
  /\ \A q \in 1..(p - 1) : fout.procs[q].pc # "none"
  /\ MayStart(fout.procs)
  /\ \E trigger \in Triggers :
       fout' = [fout EXCEPT
                  !.procs[p] = [pc |-> "dedup", trigger |-> trigger,
                                si |-> 1, pending |-> {}],
                  !.overlapped = @ \/ \E q \in Processes :
                                        fout.procs[q].pc \in ActivePcs]
  /\ UNCHANGED <<mainVars, fin>>

\* the dedup loop of process p: one sheet's first column is read per step
OverlapDedup(p) ==
  /\ fin.kind = "overlap"
  /\ fout.procs[p].pc = "dedup"
  /\ LET si_p == fout.procs[p].si
     IN IF si_p > Len(OverlapSheets)
          THEN fout' = [fout EXCEPT !.procs[p].pc = "fetch"]
          ELSE IF SheetHasMonth(fout.sheets[OverlapSheets[si_p]], OverlapMonth)
                 THEN fout' = [fout EXCEPT !.procs[p].pc = "skipped"]
                 ELSE fout' = [fout EXCEPT !.procs[p].si = si_p + 1]
  /\ UNCHANGED <<mainVars, fin>>

\* getAnalyticsData of process p: no data, or rows for every sheet
OverlapFetch(p) ==
  /\ fin.kind = "overlap"
  /\ fout.procs[p].pc = "fetch"
  /\ \E hasData \in BOOLEAN :
       fout' = IF hasData
                 THEN [fout EXCEPT !.procs[p].pc = "write",
                                   !.procs[p].pending = SheetNames]
                 ELSE [fout EXCEPT !.procs[p].pc = "nodata"]
  /\ UNCHANGED <<mainVars, fin>>

\* one updateSheet of process p appends its row of the month to sheet s
OverlapAppend(p, s) ==
  /\ fin.kind = "overlap"
  /\ fout.procs[p].pc = "write"
  /\ s \in fout.procs[p].pending
  /\ fout' = [fout EXCEPT
                !.sheets[s] = @ \o <<Cell(DateOf(OverlapMonth, 1), p, "row")>>,
                !.procs[p].pending = @ \ {s}]
  /\ UNCHANGED <<mainVars, fin>>

\* Promise.all of process p resolved: the unit is completed
OverlapComplete(p) ==
  /\ fin.kind = "overlap"
  /\ fout.procs[p].pc = "write"
  /\ fout.procs[p].pending = {}
  /\ fout' = [fout EXCEPT !.procs[p].pc = "done"]
  /\ UNCHANGED <<mainVars, fin>>

OverlapNext ==
  \E p \in Processes :
    \/ Spawn(p)
    \/ OverlapDedup(p)
    \/ OverlapFetch(p)
    \/ \E s \in SheetNames : OverlapAppend(p, s)
    \/ OverlapComplete(p)

SpecOverlap == OverlapInit /\ [][OverlapNext]_vars


(* ===================== a run after a partial failure =================== *)
\* the runs that follow one whose unit of group 1 and month 1 failed after
\* the first sheet had received the month's rows and the write of the second
\* sheet had thrown (SpecRerun)
PartialUnit == <<1, 1>>

\* the sheet whose updateSheet had appended its rows
WrittenSheet == Capitalize(NetworkOrder[1])

\* the sheet whose updateSheet threw: it holds its header row only
FailedSheet == Capitalize(NetworkOrder[2])

\* the spreadsheet the failed unit has left behind
PartialDoc ==
  [exists |-> TRUE, title |-> 1,
   sheets |-> [s \in SheetNames |->
      [created |-> s \in {WrittenSheet, FailedSheet},
       colA |-> IF s = WrittenSheet
                  THEN <<HeaderCell, Cell(DateOf(PartialUnit[2], 1), 1, "row")>>
                ELSE IF s = FailedSheet THEN <<HeaderCell>>
                ELSE <<>>]]]

RerunInit ==
  /\ docs = [u \in Units |-> IF u = PartialUnit THEN PartialDoc ELSE EmptyDoc]
  /\ run = 1
  /\ nowMonth = NumMonths
  /\ pc = "idle"
  /\ mi = 1
  /\ gi = 1
  /\ folderMonth = 0
  /\ monthResults = <<>>
  /\ allResults = <<>>
  /\ upc = "none"
  /\ createdSheets = <<>>
  /\ si = 1
  /\ analyticsData = <<>>
  /\ rowsByNetwork = NoRows
  /\ writes = {}
  /\ ust = [u \in Units |-> "PENDING"]
  /\ ops = {}
  /\ order = <<>>
  /\ pauses = {}
  /\ monthPauses = {}
  /\ snap = [s \in SheetNames |-> 0]
  /\ faults = 0
  /\ fetched = 0
  /\ numGroups = [m \in Months |-> -1]
  /\ unitCount = 0
  /\ results = <<>>
  /\ summary = [printed |-> FALSE, lines |-> 0, error |-> "none"]
  /\ exited = "no"
  /\ fin = NoInput
  /\ fout = NoOutput

SpecRerun == RerunInit /\ [][Next]_vars


(* ================= the single-spreadsheet script ======================= *)
\* main of the script that updates one spreadsheet, invoked by scheduleRuns
\* at once and then by its 30-minute timer, with the process-global
\* lastUpdateTime (SpecIncremental)
MaxInvocations == 3

Invocations == 1..MaxInvocations

\* the awaits of main before the date range is computed, in order
SetupSteps == <<"auth", "createSheets", "setupHeaders">>

\* the awaits of main after the date range is computed, in order
FetchSteps == <<"profiles", "analytics", "write">>

NoRange == [startDate |-> "none", endDate |-> "none"]

\* START_DATE to END_DATE
FullRange == [startDate |-> "START_DATE", endDate |-> "END_DATE"]

\* formatDate(lastWeek) to formatDate(now)
LastWeekRange == [startDate |-> "now - 7 days", endDate |-> "now"]

NotInvoked == [pc |-> "none", range |-> NoRange, fetched |-> NoRange, wrote |-> FALSE]

\* global.lastUpdateTime is undefined (0) when the process starts; chosen
\* lists the invocations in the order in which they computed their range
IncrementalStart ==
  [done |-> FALSE,
   lastUpdateTime |-> 0,
   inv |-> [i \in Invocations |-> NotInvoked],
   chosen |-> <<>>,
   overlapped |-> FALSE]

IncrementalInit ==
  /\ MainInit
  /\ fin = [kind |-> "incremental"]
  /\ fout = IncrementalStart

\* an invocation of main that has not returned
Running(invocation) == invocation.pc \notin {"none", "done", "failed"}

\* scheduleRuns: main() at once, then main() from setInterval every 30
\* minutes, whether or not an earlier invocation has returned
Invoke(i) ==
  /\ fin.kind = "incremental"
  /\ fout.inv[i].pc = "none"
  /\ \A j \in 1..(i - 1) : fout.inv[j].pc # "none"
  /\ fout' = [fout EXCEPT
                !.inv[i].pc = SetupSteps[1],
                !.overlapped = @ \/ \E j \in Invocations : Running(fout.inv[j])]
  /\ UNCHANGED <<mainVars, fin>>

\* the step that follows step k of a list of awaits, or last after the list
StepAfter(steps, k, last) == IF k < Len(steps) THEN steps[k + 1] ELSE last

\* getGoogleAuth, createSheetIfNotExists, setupHeaders: resolve, or throw
\* into the catch of main
Setup(i) ==
  /\ fin.kind = "incremental"
  /\ \E k \in 1..Len(SetupSteps) :
       /\ fout.inv[i].pc = SetupSteps[k]
       /\ \E outcome \in {"ok", "throw"} :
            fout' = [fout EXCEPT !.inv[i].pc =
                       IF outcome = "ok" THEN StepAfter(SetupSteps, k, "range")
                       ELSE "failed"]
  /\ UNCHANGED <<mainVars, fin>>

\* const isFirstRun = !global.lastUpdateTime
isFirstRun(lastUpdateTime) == lastUpdateTime = 0

\* a main that does not record the time of the update
TrackLastUpdate_Never(lastUpdateTime, now) == lastUpdateTime

\* global.lastUpdateTime = now
TrackLastUpdate(lastUpdateTime, now) == now

\* the date range is computed and lastUpdateTime is set, with no await in
\* between; now is kept as the number of the invocation
ComputeRange(i) ==
  /\ fin.kind = "incremental"
  /\ fout.inv[i].pc = "range"
  /\ fout' = [fout EXCEPT
                !.inv[i].range = IF isFirstRun(fout.lastUpdateTime)
                                   THEN FullRange ELSE LastWeekRange,
                !.inv[i].pc = FetchSteps[1],
                !.lastUpdateTime = TrackLastUpdate(@, i),
                !.chosen = Append(@, i)]
  /\ UNCHANGED <<mainVars, fin>>

\* getProfileData, getAnalyticsData with the computed range, the sheet
\* updates: resolve, or throw into the catch of main
Fetch(i) ==
  /\ fin.kind = "incremental"
  /\ \E k \in 1..Len(FetchSteps) :
       /\ fout.inv[i].pc = FetchSteps[k]
       /\ \E outcome \in {"ok", "throw"} :
            fout' = [fout EXCEPT
                       !.inv[i].pc = IF outcome = "ok"
                                       THEN StepAfter(FetchSteps, k, "done")
                                       ELSE "failed",
                       !.inv[i].fetched =
                          IF outcome = "ok" /\ FetchSteps[k] = "analytics"
                            THEN fout.inv[i].range ELSE @,
                       !.inv[i].wrote =
                          @ \/ (outcome = "ok" /\ FetchSteps[k] = "write")]
  /\ UNCHANGED <<mainVars, fin>>

IncrementalNext ==
  \E i \in Invocations :
    \/ Invoke(i)
    \/ Setup(i)
    \/ ComputeRange(i)
    \/ Fetch(i)

SpecIncremental == IncrementalInit /\ [][IncrementalNext]_vars


(* ========================= the monthly summary ========================= *)
\* addMonthlySummary of the five modules, applied on its own to one batch of
\* rows (SpecSummary); a row is kept as its date and the cells the posts
\* total is concerned with, by position (from 1)
MaxSummaryRows == 2
MaxPosts == 2

SummaryModules == {"twitter", "linkedin", "instagram", "youtube", "facebook"}

\* the name HEADERS gives to the column of posts_sent_count
PostsHeader(module) ==
  IF module = "youtube" THEN "Posts Sent Count" ELSE "Posts Published Count"

\* columns of a row that the posts total reads or should read
SummaryColumns(module) ==
  IF module = "facebook"
    THEN {"Unique Video Views", PostsHeader(module)}
    ELSE {PostsHeader(module)}

SummaryPositions(module) == {HEADERS(module)[name] : name \in SummaryColumns(module)}

\* rows of a batch: dated in the current month or the next one
SummaryRows(module) ==
  [date : {DateOf(ym, 1) : ym \in 1..2},
   cells : [SummaryPositions(module) -> 0..MaxPosts]]

SummaryInputs ==
  UNION {[kind : {"summary"}, module : {module},
          rows : SeqsUpTo(SummaryRows(module), MaxSummaryRows)] :
           module \in SummaryModules}

SummaryInit ==
  /\ MainInit
  /\ fin \in SummaryInputs
  /\ fout = NoOutput

\* the index i of row[i] in postsCount: currentMonthData.reduce((sum, row)
\* => sum + row[i], 0)
PostsIndex(module) ==
  CASE module = "twitter" -> 25
    [] module = "linkedin" -> 15
    [] module = "instagram" -> 14
    [] module = "youtube" -> 9
    [] module = "facebook" -> 48

\* the index of monthlyTotals.postsCount in the summaryRow array
SummaryIndex(module) ==
  CASE module = "twitter" -> 25
    [] module = "linkedin" -> 15
    [] module = "instagram" -> 14
    [] module = "youtube" -> 9
    [] module = "facebook" -> 49

\* rows.reduce((sum, row) => sum + row[index], 0)
RECURSIVE ReduceSum(_, _)
ReduceSum(rows, index) ==
  IF rows = <<>> THEN 0
  ELSE Head(rows).cells[index + 1] + ReduceSum(Tail(rows), index)

\* module.addMonthlySummary(sheets, spreadsheetId, data): nothing is appended
\* when no row is dated in the current month
ApplySummary ==
  /\ fin.kind = "summary"
  /\ ~fout.done
  /\ LET monthData == currentMonthData(fin.rows)
     IN fout' = IF monthData = <<>>
                  THEN [done |-> TRUE, appended |-> FALSE, summaryRow |-> <<>>]
                  ELSE [done |-> TRUE, appended |-> TRUE,
                        summaryRow |->
                          ((SummaryIndex(fin.module) + 1) :>
                             ReduceSum(monthData, PostsIndex(fin.module)))]
  /\ UNCHANGED <<mainVars, fin>>

SummaryNext == ApplySummary

SpecSummary == SummaryInit /\ [][SummaryNext]_vars


(* ============================ properties ============================== *)
Started == {order[i] : i \in 1..Len(order)}
TerminalStates == {"SKIPPED", "DONE", "FAILED", "NO_DATA", "ABANDONED"}
HasUnit == Len(order) > 0
LastUnit == order[Len(order)]
\* the unit started last has returned to the group loop
LastReturned == HasUnit /\ upc \in TerminalUpc
Recorded(status) == \E i \in 1..Len(results) : results[i].status = status
\* runs whose pass has appended a row of month d[2] that sheet s of d holds
Passes(d, s) ==
  LET colA == docs[d].sheets[s].colA
  IN {colA[i].by : i \in {j \in 1..Len(colA) :
                            colA[j].kind = "row" /\ colA[j].ym = d[2]}}
MonthRows(d, s) == CountMonth(docs[d].sheets[s].colA, d[2])

(* C1: for every destination, platform sheet and month, the rows of that
   month in that sheet were appended by at most one synchronization pass. *)
C1_AtMostOnePass ==
  \A d \in Units : \A s \in SheetNames : Cardinality(Passes(d, s)) <= 1

(* C2: a unit whose destination already held a row of the month when the
   unit started, and which did not end in an error, ends with status
   "Already updated for this month" and with the same number of rows of that
   month in every sheet. *)
C2_RerunSkipsUnchanged ==
  (LastReturned /\ ~Recorded(STATUS_ERROR) /\ \E s \in SheetNames : snap[s] > 0)
    => /\ Recorded(STATUS_SKIPPED)
       /\ \A s \in SheetNames : MonthRows(LastUnit, s) = snap[s]

(* C3: the dedup check answers "already synced" exactly when some created
   sheet holds in its first column a value that starts with the month key,
   whatever the sheets hold, a single row included. *)
C3_DedupIffSomeSheetHoldsMonth ==
  fout.done =>
    (fout.existingData <=>
       \E i \in 1..Len(fin.columns) : \E j \in 1..Len(fin.columns[i]) :
         StartsWithKey(fin.columns[i][j],
                       MonthYearKey(getMonthDateRange(fin.month).startDate)))

(* C4: the state of a unit changes only along PENDING -> CHECKING_DEDUP ->
   SKIPPED, PENDING -> CHECKING_DEDUP -> FETCHING -> ROUTING -> WRITING ->
   DONE, or from a network-facing state to FAILED; a returned unit is in
   SKIPPED, DONE or FAILED; a SKIPPED unit issued neither an analytics fetch
   nor a row append. *)
C4_SpecEdges ==
  { <<"PENDING", "CHECKING_DEDUP">>, <<"CHECKING_DEDUP", "SKIPPED">>,
    <<"CHECKING_DEDUP", "FETCHING">>, <<"FETCHING", "ROUTING">>,
    <<"ROUTING", "WRITING">>, <<"WRITING", "DONE">> }
  \cup { <<st, "FAILED">> : st \in {"PENDING", "CHECKING_DEDUP", "FETCHING", "WRITING"} }

C4_StateMachineAsWritten ==
  /\ [][run' = run =>
          \A u \in Units : ust'[u] # ust[u] => <<ust[u], ust'[u]>> \in C4_SpecEdges]_vars
  /\ [](LastReturned => ust[LastUnit] \in {"SKIPPED", "DONE", "FAILED"})
  /\ [](\A u \in Started : ust[u] = "SKIPPED" /\ u = LastUnit
          => ops \cap {"fetch", "append"} = {})

(* C4, amended: the state of a unit changes only along the edges of the
   written state machine, or FETCHING -> NO_DATA, or PENDING -> ABANDONED, or
   to FAILED from PENDING, FETCHING, ROUTING or WRITING; a returned unit is
   in exactly one of SKIPPED, DONE, NO_DATA, ABANDONED, FAILED; the analytics
   fetch is entered only from the dedup check; a SKIPPED unit issued neither
   an analytics fetch nor a row append. *)
C4_CodeEdges ==
  { <<"PENDING", "CHECKING_DEDUP">>, <<"CHECKING_DEDUP", "SKIPPED">>,
    <<"CHECKING_DEDUP", "FETCHING">>, <<"FETCHING", "ROUTING">>,
    <<"ROUTING", "WRITING">>, <<"WRITING", "DONE">>,
    <<"FETCHING", "NO_DATA">>, <<"PENDING", "ABANDONED">> }
  \cup { <<st, "FAILED">> : st \in {"PENDING", "FETCHING", "ROUTING", "WRITING"} }

C4_StateMachine ==
  /\ [][run' = run =>
          \A u \in Units : ust'[u] # ust[u] => <<ust[u], ust'[u]>> \in C4_CodeEdges]_vars
  /\ [](LastReturned => ust[LastUnit] \in TerminalStates)
  /\ [](HasUnit /\ "fetch" \in ops => "read" \in ops)
  /\ [](HasUnit /\ ust[LastUnit] = "SKIPPED" => ops \cap {"fetch", "append"} = {})

C4_Witness ==
  /\ \E u \in Started : ust[u] = "SKIPPED"
  /\ \E u \in Started : ust[u] = "NO_DATA"
  /\ pc = "idle"

(* C5: a unit that recorded "Already updated for this month" issued no
   write operation against its destination: no document rename, no sheet
   creation, no header write, no row append. *)
C5_SkippedUnitIssuesNoWrite ==
  (HasUnit /\ Recorded(STATUS_SKIPPED))
    => ops \cap {"rename", "create", "createSheet", "header", "append"} = {}

(* C5, amended: a unit that recorded "Already updated for this month"
   issued no row append and no analytics fetch; the document rename, the
   sheet creations and the header writes were issued before its dedup check. *)
C5_SkippedUnitAppendsNothing ==
  (HasUnit /\ Recorded(STATUS_SKIPPED))
    => /\ ops \cap {"append", "fetch"} = {}
       /\ {"rename", "createSheet", "header", "read"} \subseteq ops
       /\ ~\E w \in writes : w.dest = LastUnit /\ w.run = run

C5_Witness ==
  /\ HasUnit /\ Recorded(STATUS_SKIPPED) /\ upc = "skipped"
  /\ \E s \in SheetNames : snap[s] > 0
  /\ "rename" \in ops

(* C6: when a unit becomes FAILED, the result it returns is the one record
   with status "Error after <duration>: <message>", that record is appended
   to the results of the month, and the group loop goes on to its pause; a
   run that has ended has entered every month of its list and has run every
   group of every month whose metadata it obtained. *)
C6_FailureRecordedAndLoopContinues ==
  /\ [][\A u \in Units :
          (run' = run /\ ust[u] # "FAILED" /\ ust'[u] = "FAILED")
            => /\ results' = <<ErrorResult(u[1])>>
               /\ monthResults' = Append(monthResults, ErrorResult(u[1]))
               /\ pc' = "sleep5"]_vars
  /\ []((pc = "idle" /\ run > 0)
          => \A m \in monthsToProcess :
               /\ numGroups[m] >= 0
               /\ \A g \in 1..numGroups[m] :
                    <<g, m>> \in Started /\ ust[<<g, m>>] \in TerminalStates)

C6_Witness ==
  /\ pc = "idle" /\ run > 0
  /\ \E i \in 1..Len(order) : \E j \in 1..Len(order) : \E k \in 1..Len(order) :
       /\ i < j /\ j < k
       /\ ust[order[i]] = "FAILED"
       /\ order[j][2] = order[i][2]
       /\ order[k][2] > order[i][2]
  /\ \E i \in 1..Len(allResults) : allResults[i].status = STATUS_ERROR

(* C7: at most one unit is under way; a unit starts only when every unit
   started before it has reached a terminal state; units start in ascending
   order of month, and in ascending order of group within a month. *)
C7_StrictlySequential ==
  /\ [](Cardinality({u \in Started : ust[u] \notin TerminalStates}) <= 1)
  /\ [][(run' = run /\ order' # order)
          => \A u \in Started : ust[u] \in TerminalStates]_vars
  /\ [](\A i \in 1..Len(order) : \A j \in 1..Len(order) :
          i < j => \/ order[i][2] < order[j][2]
                   \/ order[i][2] = order[j][2] /\ order[i][1] < order[j][1])

C7_Witness ==
  /\ Len(order) = 3
  /\ order[1][2] = order[2][2]
  /\ order[2][2] < order[3][2]
  /\ ust[order[1]] \in TerminalStates
  /\ ust[order[2]] \in TerminalStates

(* C8: a unit that starts after another unit of the same month starts after
   a pause of 300000 ms taken since that unit returned, also when that unit
   FAILED; a month is entered after an earlier month only after a pause of
   600000 ms taken since that month returned. *)
C8_PausesBetweenGroupsAndMonths ==
  /\ [][(run' = run /\ order' # order /\ HasUnit)
          => LET prev == order[Len(order)]
                 new == order'[Len(order')]
             IN /\ prev[2] = new[2] => pauses = {300000}
                /\ prev[2] # new[2] => 600000 \in monthPauses]_vars
  /\ [][(run' = run /\ pc = "month" /\ pc' = "groups" /\ mi > 1)
          => monthPauses = {600000}]_vars

C8_Witness ==
  /\ Len(order) >= 2
  /\ ust[order[1]] = "FAILED"
  /\ order[2][2] = order[1][2]
  /\ mi > 1
  /\ pc = "groups"

(* C9: a unit has writes in flight only after its routing has completed;
   the writes of a unit are issued in one step, before the unit awaits any
   of them; two writes in flight for one unit target different sheets; the
   summary write of a sheet exists only in place of the completed rows write
   of that sheet. *)
C9_ConcurrentWritesDisjoint ==
  /\ [](\A w1 \in writes : \A w2 \in writes :
          (w1 # w2 /\ w1.dest = w2.dest /\ w1.run = w2.run) => w1.sheet # w2.sheet)
  /\ []((pc = "unit" /\ upc \in {"find", "sheets", "dedup", "fetch", "route", "issue"})
          => /\ "append" \notin ops
             /\ ~\E w \in writes : w.dest = Dest /\ w.run = run)
  /\ [][\A w \in writes' \ writes :
          IF w.phase = "rows"
            THEN /\ pc = "unit" /\ upc = "issue" /\ upc' = "await"
                 /\ w.dest = Dest /\ w.run = run
                 /\ rowsByNetwork[w.networkType] = w.rows
            ELSE /\ [w EXCEPT !.phase = "rows"] \in writes
                 /\ [w EXCEPT !.phase = "rows"] \notin writes']_vars

C9_Witness ==
  /\ pc = "unit" /\ upc = "await"
  /\ \E w1 \in writes : \E w2 \in writes :
       /\ w1.dest = Dest /\ w2.dest = Dest /\ w1.run = run /\ w2.run = run
       /\ w1.sheet # w2.sheet
       /\ w1.phase = "summary" /\ w2.phase = "rows"

(* C10: the results collected in the run hold exactly one record for every
   unit that has returned, each with one of the four status strings. *)
C10_CollectedResults ==
  LET collected == allResults \o monthResults
  IN /\ Len(collected) =
          Cardinality({u \in Started : ust[u] \in TerminalStates})
     /\ \A u \in {v \in Started : ust[v] \in TerminalStates} :
          Cardinality({i \in 1..Len(collected) : collected[i].groupId = u[1]
                         /\ (collected[i].dateRange = u[2]
                             \/ collected[i].status = STATUS_ERROR)}) >= 1
     /\ \A i \in 1..Len(collected) :
          collected[i].status \in
            {STATUS_COMPLETED, STATUS_NO_DATA, STATUS_SKIPPED, STATUS_ERROR}

(* C11: a run that has ended with a non-empty list of collected results has
   printed the summary, one line for every collected result, and no error
   was raised while it was built. *)
C11_SummaryPrinted ==
  (pc = "idle" /\ run > 0 /\ allResults # <<>>)
    => /\ summary.printed
       /\ summary.lines = Len(allResults)
       /\ summary.error = "none"

(* C12: when the analytics fetch of a unit brings no data point, the unit
   returns with the single result "No data" and the group loop goes on to
   its pause; a unit that ended so has issued no row append and has left
   the month's rows of every sheet of its destination as they were. *)
C12_NoDataRecorded ==
  /\ [][(pc = "unit" /\ upc = "fetch" /\ upc' \notin {"fetch", AfterUnitFailed}
          /\ analyticsData' = <<>>)
          => /\ results' = <<Result(gi, folderMonth, STATUS_NO_DATA)>>
             /\ monthResults' = monthResults \o results'
             /\ ust'[Unit] = "NO_DATA"
             /\ pc' = "sleep5"
             /\ docs' = docs /\ writes' = writes]_vars
  /\ []((HasUnit /\ ust[LastUnit] = "NO_DATA")
          => /\ "append" \notin ops
             /\ \A s \in SheetNames : MonthRows(LastUnit, s) = snap[s])

C12_Witness ==
  /\ \E i \in 1..Len(order) : \E j \in 1..Len(order) :
       i < j /\ ust[order[i]] = "NO_DATA" /\ ust[order[j]] \in TerminalStates
  /\ \E i \in 1..Len(allResults) : allResults[i].status = STATUS_NO_DATA

\* the calls of one loop, and its failed or empty calls, in the log
CallsOf(l) ==
  {i \in 1..Len(fout.log) : fout.log[i].ev = "call" /\ fout.log[i].loop = l}
FailedCallsOf(l) == {i \in CallsOf(l) : fout.log[i].outcome # "list"}

(* C13: each of the two fetches is attempted at most 3 times; no attempt of
   a fetch follows one that returned a non-empty list; a failed or empty
   attempt other than the third is followed by a pause of 10000 ms before
   anything else, the third by none; after 3 failed or empty attempts of a
   fetch the month returns the empty list and goes on to no group, and it
   goes on to the groups only when both fetches returned a non-empty list. *)
C13_MetadataRetries ==
  fin.kind = "retry" =>
    /\ \A l \in {"groups", "profiles"} :
         /\ Cardinality(CallsOf(l)) <= 3
         /\ \A i \in CallsOf(l) : \A j \in CallsOf(l) :
              i < j => /\ fout.log[i].outcome # "list"
                       /\ fout.log[i].attempt < fout.log[j].attempt
         /\ \A i \in FailedCallsOf(l) :
              IF fout.log[i].attempt < 3
                THEN IF i = Len(fout.log) THEN fout.sleeping /\ ~fout.done
                     ELSE fout.log[i + 1] = SleepEvent(l, fout.log[i].attempt, 10000)
                ELSE i = Len(fout.log) /\ fout.done /\ fout.exit = "return []"
    /\ \A i \in 1..Len(fout.log) :
         fout.log[i].ev = "sleep" => i > 1 /\ (i - 1) \in FailedCallsOf(fout.log[i].loop)
    /\ fout.exit = "return []"
         <=> \E l \in {"groups", "profiles"} : Cardinality(FailedCallsOf(l)) = 3
    /\ fout.exit = "grouping"
         <=> \A l \in {"groups", "profiles"} : CallsOf(l) \ FailedCallsOf(l) # {}
    /\ (CallsOf("profiles") # {}) => CallsOf("groups") \ FailedCallsOf("groups") # {}

C13_Witness ==
  /\ fin.kind = "retry"
  /\ fout.done /\ fout.exit = "return []"
  /\ Cardinality(CallsOf("groups")) = 2
  /\ Cardinality(FailedCallsOf("profiles")) = 3
  /\ Len(fout.log) = 8

\* SpecRoute has applied the three loops to fin
Routed == fin.kind = "route" /\ fout.done

RECURSIVE SumOver(_, _)
SumOver(f, keys) ==
  IF keys = {} THEN 0
  ELSE LET k == CHOOSE x \in keys : TRUE IN f[k] + SumOver(f, keys \ {k})

\* rows handed to updateSheet
RowsWritten ==
  SumOver([n \in ModuleKeys |->
             IF fout.sheetLog[n] = "Starting sheet update"
               THEN Len(fout.rows[n]) ELSE 0], ModuleKeys)

\* rows covered by a "Sheet ... not created, skipping update" message
RowsNotCreated ==
  SumOver([n \in ModuleKeys |->
             IF fout.sheetLog[n] = "Sheet not created, skipping update"
               THEN Len(fout.rows[n]) ELSE 0], ModuleKeys)

\* messages of the routing loop that report a data point without a row
DropMessages ==
  Cardinality({i \in 1..Len(fout.log) : fout.log[i] # "Added row"})

(* C14: every data point of the batch produces a row that is written or is
   dropped with a log entry: the rows written, the rows covered by a "sheet
   not created" message and the drop messages of the routing loop together
   account for every data point fetched. *)
C14_NoSilentDrop ==
  Routed => RowsWritten + RowsNotCreated + DropMessages = Len(fin.data)

\* the data points of fin that arrive first under their key
KeptIndexes ==
  {i \in 1..Len(fin.data) :
     /\ ~Skipped(fin.data[i])
     /\ \A j \in 1..(i - 1) :
          Skipped(fin.data[j]) \/ KeyOf(fin.data[j]) # KeyOf(fin.data[i])}

\* rows produced for one profile id and one date, over all network types
RowsOf(profileId, date) ==
  SumOver([n \in ModuleKeys |->
             Cardinality({i \in 1..Len(fout.rows[n]) :
                            /\ fout.rows[n][i].profileId = profileId
                            /\ fout.rows[n][i].date = date})], ModuleKeys)

(* C15: the entries routed are the data points that arrive first under
   their (profile id, date) key, in arrival order; every profile has at most
   one row per date, and the entry whose data point normalizes has exactly
   one row, built from that first data point. *)
C15_FirstDataPointWins ==
  Routed =>
    /\ Len(fout.entries) = Cardinality(KeptIndexes)
    /\ \A i \in KeptIndexes :
         LET k == Cardinality({j \in KeptIndexes : j <= i})
         IN /\ fout.entries[k].dataPoint = fin.data[i]
            /\ fout.outcomes[k].msg = "Added row" =>
                 /\ RowsOf(fout.outcomes[k].row.profileId, fout.entries[k].date) = 1
                 /\ fout.outcomes[k].row.value = fin.data[i].metrics.value
    /\ \A p \in fin.profiles : \A i \in 1..Len(fin.data) :
         RowsOf(p.customer_profile_id, ToIsoDate(fin.data[i].reporting_period)) <= 1

\* two data points of one profile and one day, the id once as a number and
\* once as a string, the first with metrics and the second without: one
\* row, from the first
C15_Witness ==
  /\ Routed
  /\ Len(fin.data) = 2
  /\ fin.data[1].customer_profile_id = Num(ProfileId(1, 1))
  /\ fin.data[2].customer_profile_id = Str(ProfileId(1, 1))
  /\ fin.data[1].metrics = Metrics(1)
  /\ fin.data[2].metrics = NoMetrics
  /\ Len(fout.entries) = 1
  /\ fout.outcomes[1].msg = "Added row"
  /\ fout.outcomes[1].row.value = 1

\* two ids that denote the same number, each a number or a string of digits
SameNumber(a, b) == a.t # "undefined" /\ b.t # "undefined" /\ a.v = b.v

(* C16: an entry whose profile id denotes the same number as the id of a
   profile of the list is resolved to that profile, whether the two ids are
   numbers or strings: the routing loop does not report it as not found. *)
C16_ResolvedWhenSameNumber ==
  Routed =>
    \A k \in 1..Len(fout.entries) :
      (\E p \in fin.profiles :
         SameNumber(fout.entries[k].profileId, p.customer_profile_id))
        => fout.log[k] # "Profile not found for ID"

\* the network types the table names, and the platform key it gives each
TableTypes ==
  {"linkedin_company", "fb_instagram_account", "fb_page", "youtube_channel",
   "twitter_profile"}

TableValue(raw) ==
  CASE raw = "linkedin_company" -> "linkedin"
    [] raw = "fb_instagram_account" -> "instagram"
    [] raw = "fb_page" -> "facebook"
    [] raw = "youtube_channel" -> "youtube"
    [] raw = "twitter_profile" -> "twitter"

\* entry k of the routing loop was resolved to profile p
ResolvedTo(k, p) ==
  /\ p \in fin.profiles
  /\ StrictEquals(p.customer_profile_id, ParseInt(fout.entries[k].profileId))

\* an Instagram account's row goes to the Instagram rows, none to Facebook
InstagramNotFacebook(k, p) ==
  (p.network_type = "fb_instagram_account" /\ fout.log[k] = "Added row")
    => /\ InSeq(fout.outcomes[k].row, fout.rows["instagram"])
       /\ fout.rows["facebook"] = <<>>

(* C17 as written: the platform key of a resolved profile is the table value
   for the five network types of the table, an Instagram account is routed to
   the Instagram normalizer and never to Facebook, and every other network
   type is its own platform key, unchanged. *)
C17_OtherTypesUnchanged ==
  Routed =>
    \A k \in 1..Len(fout.entries) : \A p \in fin.profiles :
      ResolvedTo(k, p) =>
        /\ fout.outcomes[k].networkType =
             IF p.network_type \in TableTypes THEN TableValue(p.network_type)
             ELSE p.network_type
        /\ InstagramNotFacebook(k, p)

(* C17, amended: the platform key of a resolved profile is the table value
   for the five network types of the table, an Instagram account is routed to
   the Instagram normalizer and never to Facebook, and every other network
   type gives its lower-case form as platform key. *)
C17_OtherTypesLowerCased ==
  Routed =>
    \A k \in 1..Len(fout.entries) : \A p \in fin.profiles :
      ResolvedTo(k, p) =>
        /\ fout.outcomes[k].networkType =
             IF p.network_type \in TableTypes THEN TableValue(p.network_type)
             ELSE ToLowerCase(p.network_type)
        /\ InstagramNotFacebook(k, p)

\* a profile of a type outside the table: its entry gets the lower-case key,
\* which here names the Twitter module, and its row is added there
C17_Witness ==
  /\ Routed
  /\ Len(fout.entries) = 1
  /\ \E p \in fin.profiles : ResolvedTo(1, p) /\ p.network_type = "Twitter"
  /\ fout.outcomes[1].networkType = "twitter"
  /\ fout.log[1] = "Added row"
  /\ Len(fout.rows["twitter"]) = 1

\* a data point without a metrics block or without a reporting period
Incomplete(dataPoint) ==
  ~dataPoint.metrics.present \/ ~dataPoint.reporting_period.present

\* every row collected for some network type
AllRows ==
  UNION {{fout.rows[n][i] : i \in 1..Len(fout.rows[n])} : n \in ModuleKeys}

(* C18: each of the five normalizers gives the "no row" result for a data
   point without metrics or without reporting period; the routing loop logs
   "No row generated" for such an entry of a known platform, collects no row
   for it, and still handles every entry of the batch. *)
C18_IncompleteDataPointYieldsNoRow ==
  Routed =>
    /\ \A i \in 1..Len(fin.data) : \A module \in ModuleKeys : \A p \in fin.profiles :
         Incomplete(fin.data[i]) =>
           formatAnalyticsData(module, fin.data[i], p) = NullRow
    /\ Len(fout.log) = Len(fout.entries)
    /\ \A k \in 1..Len(fout.entries) :
         Incomplete(fout.entries[k].dataPoint) =>
           /\ fout.log[k] # "Added row"
           /\ fout.outcomes[k].row = NullRow
           /\ (\E p \in fin.profiles :
                 ResolvedTo(k, p) /\ fout.outcomes[k].networkType \in ModuleKeys)
                => fout.log[k] = "No row generated"
    /\ \A row \in AllRows : ~row.null /\ row.value # NoMetrics.value

\* a Facebook profile, a first entry without metrics and a second entry
\* with metrics: no row for the first, a row for the second
C18_Witness ==
  /\ Routed
  /\ \E p \in fin.profiles : p.network_type = "fb_page"
  /\ Len(fout.entries) = 2
  /\ ~fout.entries[1].dataPoint.metrics.present
  /\ fout.log[1] = "No row generated"
  /\ fout.log[2] = "Added row"
  /\ Len(fout.rows["facebook"]) = 1

(* C19: every row a normalizer returns has as many columns as the HEADERS
   list of its platform, for each of the five platforms and for every data
   point and profile: both the rows the routing loop collected and the row
   each normalizer gives for each data point of the batch. *)
C19_RowLengthEqualsHeaders ==
  Routed =>
    /\ \A n \in ModuleKeys : \A i \in 1..Len(fout.rows[n]) :
         fout.rows[n][i].length = HeadersLength(n)
    /\ \A module \in ModuleKeys : \A i \in 1..Len(fin.data) : \A p \in fin.profiles :
         LET row == formatAnalyticsData(module, fin.data[i], p)
         IN ~row.null => row.length = HeadersLength(module)

\* a Twitter profile with two rows of 32 columns
C19_Witness ==
  /\ Routed
  /\ \E p \in fin.profiles : p.network_type = "twitter_profile"
  /\ Len(fout.rows["twitter"]) = 2
  /\ \A i \in 1..2 : fout.rows["twitter"][i].length = TwitterHeaders

\* the string YYYY-MM-DD of a day of year y, month m
Ymd(y, m, d) == DateOf((y - BoundaryYear) * 12 + m, d)

\* days of month m of year y in the Gregorian calendar
CalendarDays(y, m) ==
  IF m = 2 THEN (IF (y % 4 = 0 /\ y % 100 # 0) \/ y % 400 = 0 THEN 29 ELSE 28)
  ELSE IF m \in {4, 6, 9, 11} THEN 30 ELSE 31

\* the day after a date
NextDay(date) ==
  IF date.day < CalendarDays(YearOf(date.ym), MonthOf(date.ym))
    THEN DateOf(date.ym, date.day + 1)
    ELSE DateOf(date.ym + 1, 1)

\* SpecWindows has left the loop and computed the windows of fin.now
WindowsDone == fin.kind = "windows" /\ fout.done

(* C20: from the boundary 2024-01-01 and the current date, there is one
   window per calendar month from January 2024 up to and including the month
   of the current date, in ascending order; each window runs from the first
   to the last day of its month, the last window too, even past the current
   date; each window starts the day after the one before it ends; for
   2024-03-15 the windows are January, February (to the 29th) and March
   2024. *)
C20_MonthWindows ==
  WindowsDone =>
    /\ Len(fout.windows) = fin.now.ym
    /\ \A i \in 1..Len(fout.windows) :
         /\ fout.windows[i].startDate = DateOf(i, 1)
         /\ fout.windows[i].endDate =
              DateOf(i, CalendarDays(YearOf(i), MonthOf(i)))
    /\ \A i \in 1..(Len(fout.windows) - 1) :
         fout.windows[i + 1].startDate = NextDay(fout.windows[i].endDate)
    /\ fin.now = Ymd(2024, 3, 15) =>
         fout.windows =
           << [startDate |-> Ymd(2024, 1, 1), endDate |-> Ymd(2024, 1, 31)],
              [startDate |-> Ymd(2024, 2, 1), endDate |-> Ymd(2024, 2, 29)],
              [startDate |-> Ymd(2024, 3, 1), endDate |-> Ymd(2024, 3, 31)] >>

\* the current date 2024-03-15: three windows, the last ending after it
C20_Witness ==
  /\ WindowsDone
  /\ fin.now = Ymd(2024, 3, 15)
  /\ Len(fout.windows) = 3
  /\ fout.windows[3].endDate = Ymd(2024, 3, 31)

\* SpecRates has formatted the row of fin
Formatted == fin.kind = "rates" /\ fout.done

\* the cell of the row under a header of its module
CellUnder(name) == fout.row[HEADERS(fin.module)[name]]

\* a rate in hundredths of a percent is exactly numerator / denominator x 100
ExactRate(rate, numerator, denominator) ==
  IF denominator = 0 THEN rate = 0
  ELSE rate * denominator = numerator * 10000

\* a rate in hundredths of a percent is numerator / denominator x 100 rounded
\* to two decimals: it is the nearest hundredth
RoundedRate(rate, numerator, denominator) ==
  IF denominator = 0 THEN rate = 0
  ELSE /\ 2 * (rate * denominator - numerator * 10000) <= denominator
       /\ 2 * (numerator * 10000 - rate * denominator) <= denominator

(* C21 as written: in a Twitter, LinkedIn, Instagram or Facebook row the
   engagement rate per impression is the row's engagement total divided by
   its impressions, times 100, and the rate per follower the total divided
   by its lifetime followers, times 100; each is 0 when its denominator is 0
   or absent. *)
C21_RatesExact ==
  Formatted =>
    /\ ExactRate(CellUnder("Engagement Rate % (per Impression)"),
                 CellUnder("Total Engagement Actions"),
                 CellUnder("Total Impressions"))
    /\ ExactRate(CellUnder("Engagement Rate % (per Follower)"),
                 CellUnder("Total Engagement Actions"),
                 CellUnder("Lifetime Followers Count"))

(* C21, amended: each of the two rates is that quotient times 100 rounded to
   two decimals, a number and not NaN or infinity, computed from the
   engagement total, impressions and followers of the same row, and 0 when
   its denominator is 0 or absent, so both are 0 for an empty mapping. *)
C21_RatesRoundedToTwoDecimals ==
  Formatted =>
    /\ RoundedRate(CellUnder("Engagement Rate % (per Impression)"),
                   CellUnder("Total Engagement Actions"),
                   CellUnder("Total Impressions"))
    /\ RoundedRate(CellUnder("Engagement Rate % (per Follower)"),
                   CellUnder("Total Engagement Actions"),
                   CellUnder("Lifetime Followers Count"))
    /\ CellUnder("Engagement Rate % (per Impression)") >= 0
    /\ CellUnder("Engagement Rate % (per Follower)") >= 0
    /\ DOMAIN fin.metrics = {} =>
         /\ CellUnder("Engagement Rate % (per Impression)") = 0
         /\ CellUnder("Engagement Rate % (per Follower)") = 0

\* one like on three impressions: 33.33, and no followers: 0
C21_Witness ==
  /\ Formatted
  /\ fin.module = "instagram"
  /\ CellUnder("Total Engagement Actions") = 1
  /\ CellUnder("Total Impressions") = 3
  /\ "lifetime_snapshot.followers_count" \notin DOMAIN fin.metrics
  /\ CellUnder("Engagement Rate % (per Impression)") = 3333
  /\ CellUnder("Engagement Rate % (per Follower)") = 0

\* a counter of the metrics of fin, 0 when it is absent
Counter(key) == IF key \in DOMAIN fin.metrics THEN fin.metrics[key] ELSE 0

(* C22: the cell of a Twitter row under "Total Engagement Actions" is likes
   + comments_count + shares_count + post_link_clicks +
   post_content_clicks_other + engagements_other, an absent counter counting
   as 0; likes 10, comments 2, shares 1, link clicks 3 and other clicks 0
   give 16. *)
C22_TwitterEngagementTotal ==
  (Formatted /\ fin.module = "twitter") =>
    /\ CellUnder("Total Engagement Actions") =
         Counter("likes") + Counter("comments_count") + Counter("shares_count")
         + Counter("post_link_clicks") + Counter("post_content_clicks_other")
         + Counter("engagements_other")
    /\ fin.metrics = ExampleMetrics => CellUnder("Total Engagement Actions") = 16

\* the five counters of the example, engagements_other absent: 16
C22_Witness ==
  /\ Formatted
  /\ fin.module = "twitter"
  /\ fin.metrics = ExampleMetrics
  /\ "engagements_other" \notin DOMAIN fin.metrics
  /\ CellUnder("Total Engagement Actions") = 16

\* SpecRates has formatted a row that has a click-through rate
FormattedWithClicks == Formatted /\ EmitsClickThroughRate(fin.module)

(* C23 as written: the click-through rate of a Twitter, Facebook or LinkedIn
   row is the row's link clicks divided by its impressions, times 100, and 0
   when the impressions are 0. *)
C23_LinkClicksOverImpressions ==
  FormattedWithClicks =>
    ExactRate(CellUnder("Click-Through Rate %"),
              CellUnder("Total Link Clicks"), CellUnder("Total Impressions"))

(* C23, amended: the click-through rate is the clicks divided by the
   impressions, times 100, rounded to two decimals, and 0 when the
   impressions are 0; the clicks are the link clicks in a Twitter or Facebook
   row and the link clicks plus the content clicks in a LinkedIn row. *)
C23_ClicksOverImpressionsRounded ==
  FormattedWithClicks =>
    RoundedRate(CellUnder("Click-Through Rate %"),
                IF fin.module = "linkedin"
                  THEN CellUnder("Total Link Clicks") + CellUnder("Total Content Clicks")
                  ELSE CellUnder("Total Link Clicks"),
                CellUnder("Total Impressions"))

\* a LinkedIn row with one content click, no link click and three
\* impressions: 33.33
C23_Witness ==
  /\ Formatted
  /\ fin.module = "linkedin"
  /\ CellUnder("Total Link Clicks") = 0
  /\ CellUnder("Total Content Clicks") = 1
  /\ CellUnder("Total Impressions") = 3
  /\ CellUnder("Click-Through Rate %") = 3333

(* C24: when the authentication fails the process exits and has started no
   month and no unit; only a new process leaves that state; and the process
   exits from nowhere else: no step taken inside a month or a unit, whatever
   fails there, ends the process. *)
C24_AuthFailureIsTheOnlyExit ==
  /\ [](exited # "no" =>
          /\ pc = "exited"
          /\ order = <<>>
          /\ upc = "none"
          /\ \A m \in Months : numGroups[m] = -1
          /\ \A u \in Units : ust[u] = "PENDING")
  /\ [][(pc' = "exited" /\ run' = run) => pc = "exited"]_vars
  /\ [][pc = "exited" => run' = run + 1]_vars

\* a first run that wrote rows, then a second process whose test call fails
C24_Witness ==
  /\ pc = "exited"
  /\ exited = "test call failed"
  /\ run = 2
  /\ \E d \in Units : \E s \in SheetNames : MonthRows(d, s) > 0


\* processes whose rows of the month sheet s holds
Appenders(s) ==
  {fout.sheets[s][i].by : i \in {j \in 1..Len(fout.sheets[s]) :
      fout.sheets[s][j].kind = "row"
      /\ StartsWithKey(fout.sheets[s][j], OverlapMonth)}}

\* C25: when two runs of the job have been active at the same time, no sheet
\* of the destination holds rows of the same (group, month) appended by both
C25_OverlappingRunsAppendOnce ==
  fin.kind = "overlap" /\ fout.overlapped =>
    \A s \in SheetNames : Cardinality(Appenders(s)) <= 1


\* the destination was left by a unit that failed after the first sheet had
\* received the month's rows and the write of the second sheet had thrown
AfterPartialFailure ==
  /\ docs[PartialUnit].exists
  /\ \E i \in 1..Len(docs[PartialUnit].sheets[WrittenSheet].colA) :
       LET cell == docs[PartialUnit].sheets[WrittenSheet].colA[i]
       IN cell.kind = "row" /\ cell.by = 1 /\ StartsWithKey(cell, PartialUnit[2])

(* C26: after a unit has failed with the month's rows in one platform sheet
   and the write of another platform thrown, no later run of the same group
   and month goes past the dedup check, and the sheet whose write failed
   never holds a row of that month. *)
C26_FailedPlatformNeverFilled ==
  AfterPartialFailure =>
    /\ MonthRows(PartialUnit, FailedSheet) = 0
    /\ (pc = "unit" /\ Unit = PartialUnit /\ run > 1) =>
         upc \notin {"fetch", "route", "issue", "await", "title", "done", "nodata"}


(* C27: once a unit has been reported with an Error status after one of its
   platform-sheet writes failed, no write of that unit that is still in
   flight changes a sheet of the unit's destination. *)
C27_NoAppendAfterErrorRecorded ==
  [][\A w \in writes :
       (/\ w.run = run
        /\ ust[w.dest] = "FAILED"
        /\ \E i \in 1..Len(monthResults) :
             /\ monthResults[i].status = STATUS_ERROR
             /\ monthResults[i].groupId = w.dest[1])
         => docs'[w.dest] = docs[w.dest]]_vars


\* a column read of the dedup check of the current unit throws in this step
DedupReadThrows ==
  /\ pc = "unit" /\ upc = "dedup"
  /\ faults' = faults + 1
  /\ writes' = writes

(* C28: when a column read of the dedup check throws, the check ends there:
   the unit goes to the analytics fetch with no skip result and without
   reading the sheets that remain, and the check is not entered again in the
   unit. *)
C28_DedupReadFailureProceeds ==
  /\ [][DedupReadThrows =>
          /\ upc' = "fetch"
          /\ si' = si
          /\ results' = results
          /\ docs' = docs]_vars
  /\ [][upc' = "dedup" => upc \in {"sheets", "dedup"}]_vars

\* a unit at the fetch after the first column read of its dedup check threw,
\* with further sheets unread and a sheet that holds the month
C28_Witness ==
  /\ pc = "unit" /\ upc = "fetch"
  /\ si = 1 /\ Len(createdSheets) > 1
  /\ "read" \in ops
  /\ \E s \in SheetNames : snap[s] > 0


\* invocation i has computed its date range
HasRange(i) == fout.inv[i].range # NoRange

(* C29 as stated: the first invocation of main uses the full configured
   range and every later invocation the last 7 days, whatever failed and
   however the invocations overlap. *)
C29_FirstInvocationFullLaterLastWeek ==
  fin.kind = "incremental" =>
    \A i \in Invocations :
      HasRange(i) =>
        fout.inv[i].range = IF i = 1 THEN FullRange ELSE LastWeekRange

(* C29: the first invocation of main to reach the date-range computation
   uses the full configured range and every invocation that reaches it later
   the last 7 days, also when the former failed before writing anything and
   when invocations overlap; an invocation fetches with the range it
   computed, and one that has not reached the computation has no range, has
   fetched nothing and has left lastUpdateTime as it was. *)
C29_FirstToComputeRangeIsFull ==
  fin.kind = "incremental" =>
    /\ \A k \in 1..Len(fout.chosen) :
         fout.inv[fout.chosen[k]].range =
           IF k = 1 THEN FullRange ELSE LastWeekRange
    /\ \A i \in Invocations :
         /\ fout.inv[i].fetched \in {NoRange, fout.inv[i].range}
         /\ HasRange(i) <=> \E k \in 1..Len(fout.chosen) : fout.chosen[k] = i
    /\ (fout.lastUpdateTime = 0) <=> (fout.chosen = <<>>)

\* the invocation that used the full range failed before writing anything,
\* and an invocation that overlapped with another fetched the last 7 days
C29_Witness ==
  /\ fin.kind = "incremental"
  /\ fout.overlapped
  /\ Len(fout.chosen) >= 2
  /\ fout.inv[fout.chosen[1]].pc = "failed"
  /\ ~fout.inv[fout.chosen[1]].wrote
  /\ fout.inv[fout.chosen[2]].fetched = LastWeekRange


\* the sum of a column over the rows dated in the current month
RECURSIVE ColumnSum(_, _)
ColumnSum(rows, position) ==
  IF rows = <<>> THEN 0
  ELSE (IF Head(rows).date.ym = nowMonth THEN Head(rows).cells[position] ELSE 0)
       + ColumnSum(Tail(rows), position)

(* C30: for every platform, the summary row holds, in the column that
   HEADERS names "Posts Published Count" (YouTube: "Posts Sent Count"), the
   sum of that column over the batch rows dated in the current month. *)
C30_PostsCellSumsPostsColumn ==
  (fin.kind = "summary" /\ fout.done /\ fout.appended) =>
    LET position == HEADERS(fin.module)[PostsHeader(fin.module)]
    IN /\ position \in DOMAIN fout.summaryRow
       /\ fout.summaryRow[position] = ColumnSum(fin.rows, position)

====
